---- MODULE Spec2Model ----
(***************************************************************************)
(* Paged B+Tree storage engine: BufferPoolManager and PagedBPlusTree.      *)
(* Pages are records; the fixed arrays keys/children/values of a page are  *)
(* functions from the indices written so far to their contents, an index   *)
(* never written reading as 0 (the constructor's memset).                  *)
(* The slotted Page of page.h and the PageHeader codec of page_header.h    *)
(* are modelled on bytes: a buffer is the function from the offsets of its *)
(* non-zero bytes to those bytes.                                          *)
(***************************************************************************)
EXTENDS Integers, Sequences, FiniteSets, TLC

\* ---------------------------------------------------------------- bounds
MaxKey == 4
MaxDeepKey == 6
MaxWideKey == 10
MaxOrder == 4
MaxValue == 2
MaxPoolId == 4
MaxSlots == 3
MaxPageKey == 3
BigItemSize == 4040
HugeItemSize == 65530
MaxCalls == 4
MaxStoreCalls == 2
MaxFillKey == 101

Keys == 1..MaxKey
DeepKeys == 1..MaxDeepKey
Values == 1..MaxValue
Orders == 2..MaxOrder
QueryKeys == 0..(MaxDeepKey + 1)
PoolIds == 0..MaxPoolId

\* ------------------------------------------------------ program constants
INVALID_PAGE_ID == 0
PAGE_SIZE == 4096
HeaderSize == 30
SlotEntrySize == 8
LeafNodeSize == 8
INTERNAL_PAGE == 1
LEAF_PAGE == 2
MAX_KEYS_PER_PAGE == 100

PageKeys == 1..MaxPageKey
\* The value (or child page id) stored with a key in the calls on the Page.
EntryValue(key) == 16 + key
ItemSizes == {LeafNodeSize, BigItemSize, HugeItemSize}

\* Page is the slotted Page object (data_, header_, dirty_, is_pinned_),
\* call the last call made on it with its result, and file the page image
\* that write_to_disk wrote (<<>> while there is none).
VARIABLES pageTable, nextPageId, rootPageId, firstLeafPageId, order,
          disk, inserted, lastOp, rootChanges, returned, Page, call, file

vars == <<pageTable, nextPageId, rootPageId, firstLeafPageId, order,
          disk, inserted, lastOp, rootChanges, returned, Page, call, file>>

\* ------------------------------------------------------- array helpers
EmptyArr == [i \in {} |-> 0]

At(arr, i) == IF i \in DOMAIN arr THEN arr[i] ELSE 0

Put(arr, i, v) == [j \in DOMAIN arr \cup {i} |-> IF j = i THEN v ELSE arr[j]]

\* std::vector<T>(arr, arr + n)
Slice(arr, n) == [i \in 1..n |-> At(arr, i - 1)]

\* std::copy(seq.begin(), seq.end(), arr)
CopyTo(seq, arr) ==
    [j \in DOMAIN arr \cup (0..(Len(seq) - 1)) |->
        IF j < Len(seq) THEN seq[j + 1] ELSE arr[j]]

\* vec.insert(vec.begin() + pos, x)
VecInsert(seq, pos, x) ==
    SubSeq(seq, 1, pos) \o <<x>> \o SubSeq(seq, pos + 1, Len(seq))

\* for (i = n; i > pos; i--) arr[i] = arr[i-1];  arr[pos] = x;
ShiftInsert(arr, n, pos, x) ==
    [j \in DOMAIN arr \cup (pos..n) |->
        IF j = pos THEN x
        ELSE IF j > pos /\ j <= n THEN At(arr, j - 1)
        ELSE arr[j]]

\* pos = 0; while (pos < n && seq[pos] < key) pos++;
LowerPos(seq, key) ==
    CHOOSE p \in 0..Len(seq) :
        /\ (p = Len(seq) \/ ~(seq[p + 1] < key))
        /\ \A q \in 0..(p - 1) : seq[q + 1] < key

\* Variant of UpperPos: a key equal to a separator is sent left.
UpperPosStrict(seq, key) ==
    CHOOSE p \in 0..Len(seq) :
        /\ (p = Len(seq) \/ ~(key > seq[p + 1]))
        /\ \A q \in 0..(p - 1) : key > seq[q + 1]

\* pos = 0; while (pos < n && key >= seq[pos]) pos++;
UpperPos(seq, key) ==
    CHOOSE p \in 0..Len(seq) :
        /\ (p = Len(seq) \/ ~(key >= seq[p + 1]))
        /\ \A q \in 0..(p - 1) : key >= seq[q + 1]

Min(S) == CHOOSE x \in S : \A y \in S : x <= y

\* ---------------------------------------------------------------- pages
NewPage ==
    [pageType |-> LEAF_PAGE, keyCount |-> 0,
     parentPageId |-> INVALID_PAGE_ID,
     nextPageId |-> INVALID_PAGE_ID,
     prevPageId |-> INVALID_PAGE_ID,
     keys |-> EmptyArr, children |-> EmptyArr, values |-> EmptyArr]

\* ------------------------------------------------------ BufferPoolManager
\* Variant of AllocatePage: the counter is not advanced.
AllocatePageStuck(S) == S

\* The working state S of an operation: [pt, next, root, disk, log, ok].
\* nextPageId++ on a uint32_t; the counter stays far below 2^32 here.
AllocatePage(S) == [S EXCEPT !.next = S.next + 1]

\* Variant of Fetch: a fresh page is installed on every call.
FetchAlwaysFresh(pt, id) ==
    [p \in DOMAIN pt \cup {id} |-> IF p = id THEN NewPage ELSE pt[p]]

Fetch(pt, id) ==
    IF id \in DOMAIN pt THEN pt
    ELSE [p \in DOMAIN pt \cup {id} |-> IF p = id THEN NewPage ELSE pt[p]]

\* flushPage fetches the page (creating it when it is not resident) and
\* writes page_files/page_<id>.txt; of the file system the model keeps the
\* set of page ids that have a file.
FlushPage(S, id) ==
    [S EXCEPT !.pt = Fetch(S.pt, id), !.disk = @ \cup {id}]

DeletePage(pt, id) == [p \in DOMAIN pt \ {id} |-> pt[p]]

\* -------------------------------------------------------- PagedBPlusTree
\* F applied to the value of e, e being evaluated once.
Strict(e, F(_)) == CHOOSE r \in {F(x) : x \in {e}} : TRUE

\* Variant of OrderLimit: a page may fill up to order keys before it splits.
OrderLimitLoose(ord) == ord

\* Variant of OrderLimit: a page splits one key early.
OrderLimitTight(ord) == ord - 2

\* (uint32_t)(order - 1); the cast changes nothing for order >= 1, and the
\* orders of this model are >= 2.
OrderLimit(ord) == ord - 1

\* The child findLeafPage follows from an internal page.
ChildFor(page, key) ==
    At(page.children, UpperPos(Slice(page.keys, page.keyCount), key))

\* The descent of findLeafPage from page cur.  A descent that follows more
\* child links than there are pages revisits a page and so never ends:
\* that outcome is ok = FALSE.
RECURSIVE Descend(_, _, _, _)
Descend(pt, cur, key, fuel) ==
    Strict(Fetch(pt, cur), LAMBDA pt1 :
        IF pt1[cur].pageType = LEAF_PAGE
        THEN [pt |-> pt1, leaf |-> cur, ok |-> TRUE]
        ELSE IF fuel = 0
        THEN [pt |-> pt1, leaf |-> INVALID_PAGE_ID, ok |-> FALSE]
        ELSE Strict(ChildFor(pt1[cur], key), LAMBDA child :
                 Descend(pt1, child, key, fuel - 1)))

FindLeafPage(pt, root, key) ==
    Descend(pt, root, key, Cardinality(DOMAIN pt) + 1)

\* Variant of NewRoot: the two children are stored in each other's slot.
NewRootSwapsChildren(S, leftId, rightId, key) ==
    LET newRootPageId == S.next
    IN  [AllocatePage(S) EXCEPT
            !.root = newRootPageId,
            !.pt = [Fetch(S.pt, newRootPageId) EXCEPT
                      ![newRootPageId].pageType = INTERNAL_PAGE,
                      ![newRootPageId].keyCount = 1,
                      ![newRootPageId].keys = Put(@, 0, key),
                      ![newRootPageId].children = Put(@, 0, rightId),
                      ![newRootPageId].children = Put(@, 1, leftId),
                      ![leftId].parentPageId = newRootPageId,
                      ![rightId].parentPageId = newRootPageId]]

\* Variant of NewRoot: the tree's root id is left pointing at the old root.
NewRootKeepsRoot(S, leftId, rightId, key) ==
    LET newRootPageId == S.next
    IN  [AllocatePage(S) EXCEPT
            !.pt = [Fetch(S.pt, newRootPageId) EXCEPT
                      ![newRootPageId].pageType = INTERNAL_PAGE,
                      ![newRootPageId].keyCount = 1,
                      ![newRootPageId].keys = Put(@, 0, key),
                      ![newRootPageId].children = Put(@, 0, leftId),
                      ![newRootPageId].children = Put(@, 1, rightId),
                      ![leftId].parentPageId = newRootPageId,
                      ![rightId].parentPageId = newRootPageId]]

\* Variant of NewRoot: the new root holds the old root as its only child.
NewRootOneChild(S, leftId, rightId, key) ==
    LET newRootPageId == S.next
    IN  [AllocatePage(S) EXCEPT
            !.root = newRootPageId,
            !.pt = [Fetch(S.pt, newRootPageId) EXCEPT
                      ![newRootPageId].pageType = INTERNAL_PAGE,
                      ![newRootPageId].keyCount = 0,
                      ![newRootPageId].children = Put(@, 0, leftId),
                      ![leftId].parentPageId = newRootPageId,
                      ![rightId].parentPageId = newRootPageId]]

\* Variant of NewRoot: the page type of the new root is not set.
NewRootUntyped(S, leftId, rightId, key) ==
    LET newRootPageId == S.next
    IN  [AllocatePage(S) EXCEPT
            !.root = newRootPageId,
            !.pt = [Fetch(S.pt, newRootPageId) EXCEPT
                      ![newRootPageId].keyCount = 1,
                      ![newRootPageId].keys = Put(@, 0, key),
                      ![newRootPageId].children = Put(@, 0, leftId),
                      ![newRootPageId].children = Put(@, 1, rightId),
                      ![leftId].parentPageId = newRootPageId,
                      ![rightId].parentPageId = newRootPageId]]

NewRoot(S, leftId, rightId, key) ==
    LET newRootPageId == S.next
    IN  [AllocatePage(S) EXCEPT
            !.root = newRootPageId,
            !.pt = [Fetch(S.pt, newRootPageId) EXCEPT
                      ![newRootPageId].pageType = INTERNAL_PAGE,
                      ![newRootPageId].keyCount = 1,
                      ![newRootPageId].keys = Put(@, 0, key),
                      ![newRootPageId].children = Put(@, 0, leftId),
                      ![newRootPageId].children = Put(@, 1, rightId),
                      ![leftId].parentPageId = newRootPageId,
                      ![rightId].parentPageId = newRootPageId]]

\* The direct branch of insertInternal (keyCount < order - 1).
InternalInsertDirect(S, key, internalPageId, childPageId) ==
    LET page == S.pt[internalPageId]
        n == page.keyCount
    IN  Strict(LowerPos(Slice(page.keys, n), key), LAMBDA pos :
        Strict([S.pt EXCEPT
                  ![internalPageId].keys = ShiftInsert(@, n, pos, key),
                  ![internalPageId].children =
                      ShiftInsert(@, n + 1, pos + 1, childPageId),
                  ![internalPageId].keyCount = n + 1], LAMBDA pt1 :
        Strict([S EXCEPT !.pt = [Fetch(pt1, childPageId) EXCEPT
                  ![childPageId].parentPageId = internalPageId]], LAMBDA S1 :
        FlushPage(S1, internalPageId))))

\* The merged key and child sequences of splitInternalPage.
InternalMerge(page, key, childPageId) ==
    Strict(Slice(page.keys, page.keyCount), LAMBDA tempKeys0 :
    Strict(LowerPos(tempKeys0, key), LAMBDA pos :
        [keys |-> VecInsert(tempKeys0, pos, key),
         children |-> VecInsert(Slice(page.children, page.keyCount + 1),
                                pos + 1, childPageId)]))

\* Variant of Reparent: the moved children keep their old parentPageId.
ReparentSkipped(pt, newInternalPageId) == pt

\* Every child of the new page gets the new page as its parent.
Reparent(pt, newInternalPageId) ==
    LET moved == {At(pt[newInternalPageId].children, i) :
                     i \in 0..pt[newInternalPageId].keyCount}
    IN  [p \in DOMAIN pt \cup moved |->
           IF p \in moved
           THEN [(IF p \in DOMAIN pt THEN pt[p] ELSE NewPage) EXCEPT
                    !.parentPageId = newInternalPageId]
           ELSE pt[p]]

SplitRecord(kind, pt, leftId, rightId, sep, merged) ==
    [kind |-> kind, left |-> leftId, right |-> rightId, sep |-> sep,
     merged |-> merged,
     leftKeys |-> Slice(pt[leftId].keys, pt[leftId].keyCount),
     rightKeys |-> Slice(pt[rightId].keys, pt[rightId].keyCount)]

\* Variant of InternalDivide: the merged sequence is divided at order / 2.
InternalDivideAtHalf(S, ord, internalPageId, key, childPageId) ==
    LET newInternalPageId == S.next
        mid == ord \div 2
    IN  Strict(Fetch(Fetch(S.pt, internalPageId), newInternalPageId),
               LAMBDA pt1 :
        Strict(InternalMerge(pt1[internalPageId], key, childPageId),
               LAMBDA t :
        Strict([pt1 EXCEPT
                  ![newInternalPageId].pageType = INTERNAL_PAGE,
                  ![internalPageId].keyCount = mid,
                  ![internalPageId].keys = CopyTo(SubSeq(t.keys, 1, mid), @),
                  ![internalPageId].children =
                      CopyTo(SubSeq(t.children, 1, mid + 1), @),
                  ![newInternalPageId].keyCount = Len(t.keys) - mid - 1,
                  ![newInternalPageId].keys =
                      CopyTo(SubSeq(t.keys, mid + 2, Len(t.keys)), @),
                  ![newInternalPageId].children =
                      CopyTo(SubSeq(t.children, mid + 2, Len(t.children)), @)],
               LAMBDA pt2 :
        Strict(Reparent(pt2, newInternalPageId), LAMBDA pt3 :
            [AllocatePage(S) EXCEPT
                !.pt = pt3,
                !.log = Append(@, SplitRecord("internal", pt3, internalPageId,
                                              newInternalPageId,
                                              t.keys[mid + 1], t.keys))]))))

\* The division of splitInternalPage, with the re-parenting loop.
InternalDivide(S, ord, internalPageId, key, childPageId) ==
    LET newInternalPageId == S.next
        mid == (ord + 1) \div 2
    IN  Strict(Fetch(Fetch(S.pt, internalPageId), newInternalPageId),
               LAMBDA pt1 :
        Strict(InternalMerge(pt1[internalPageId], key, childPageId),
               LAMBDA t :
        Strict([pt1 EXCEPT
                  ![newInternalPageId].pageType = INTERNAL_PAGE,
                  ![internalPageId].keyCount = mid,
                  ![internalPageId].keys = CopyTo(SubSeq(t.keys, 1, mid), @),
                  ![internalPageId].children =
                      CopyTo(SubSeq(t.children, 1, mid + 1), @),
                  ![newInternalPageId].keyCount = Len(t.keys) - mid - 1,
                  ![newInternalPageId].keys =
                      CopyTo(SubSeq(t.keys, mid + 2, Len(t.keys)), @),
                  ![newInternalPageId].children =
                      CopyTo(SubSeq(t.children, mid + 2, Len(t.children)), @)],
               LAMBDA pt2 :
        Strict(Reparent(pt2, newInternalPageId), LAMBDA pt3 :
            [AllocatePage(S) EXCEPT
                !.pt = pt3,
                !.log = Append(@, SplitRecord("internal", pt3, internalPageId,
                                              newInternalPageId,
                                              t.keys[mid + 1], t.keys))]))))

RECURSIVE InsertInternal(_, _, _, _, _, _)
RECURSIVE SplitInternalPage(_, _, _, _, _, _)

\* What both split routines do after the division: a new root, or the
\* separator handed to the parent; then the two flushes.
Propagate(S1, ord, pageId, fuel) ==
    LET rec == S1.log[Len(S1.log)]
    IN  Strict(IF pageId = S1.root
               THEN NewRoot(S1, pageId, rec.right, rec.sep)
               ELSE Strict([S1 EXCEPT !.pt[rec.right].parentPageId =
                                S1.pt[pageId].parentPageId], LAMBDA S2 :
                        InsertInternal(S2, ord, rec.sep,
                                       S2.pt[pageId].parentPageId,
                                       rec.right, fuel)),
               LAMBDA S3 :
        Strict(FlushPage(S3, pageId), LAMBDA S4 : FlushPage(S4, rec.right)))

SplitInternalPage(S, ord, internalPageId, key, childPageId, fuel) ==
    Strict(InternalDivide(S, ord, internalPageId, key, childPageId),
           LAMBDA S1 : Propagate(S1, ord, internalPageId, fuel - 1))

InsertInternal(S, ord, key, internalPageId, childPageId, fuel) ==
    Strict([S EXCEPT !.pt = Fetch(S.pt, internalPageId)], LAMBDA S1 :
        IF fuel = 0 THEN [S1 EXCEPT !.ok = FALSE]
        ELSE IF S1.pt[internalPageId].keyCount < OrderLimit(ord)
        THEN InternalInsertDirect(S1, key, internalPageId, childPageId)
        ELSE SplitInternalPage(S1, ord, internalPageId, key, childPageId,
                               fuel))

\* Variant of LeafMerge: the new entry is appended, not put in sorted place.
LeafMergeAppends(leaf, key, value) ==
    [keys |-> Append(Slice(leaf.keys, leaf.keyCount), key),
     values |-> Append(Slice(leaf.values, leaf.keyCount), value)]

\* The merged key and value sequences of splitLeafPage.
LeafMerge(leaf, key, value) ==
    Strict(Slice(leaf.keys, leaf.keyCount), LAMBDA tempKeys0 :
    Strict(LowerPos(tempKeys0, key), LAMBDA pos :
        [keys |-> VecInsert(tempKeys0, pos, key),
         values |-> VecInsert(Slice(leaf.values, leaf.keyCount), pos, value)]))

\* Variant of Relink: the new leaf keeps no successor.
RelinkDropsTail(pt, leafPageId, newLeafPageId) ==
    [pt EXCEPT ![newLeafPageId].prevPageId = leafPageId,
               ![leafPageId].nextPageId = newLeafPageId]

\* Variant of Relink: the former successor keeps its old prevPageId.
RelinkOneWay(pt, leafPageId, newLeafPageId) ==
    LET nxt == pt[leafPageId].nextPageId
    IN  Strict([pt EXCEPT ![newLeafPageId].nextPageId = nxt,
                          ![newLeafPageId].prevPageId = leafPageId],
               LAMBDA pt1 :
        IF nxt # INVALID_PAGE_ID
        THEN [Fetch(pt1, nxt) EXCEPT ![leafPageId].nextPageId = newLeafPageId]
        ELSE [pt1 EXCEPT ![leafPageId].nextPageId = newLeafPageId])

\* The relinking of the sibling chain by splitLeafPage.
Relink(pt, leafPageId, newLeafPageId) ==
    LET nxt == pt[leafPageId].nextPageId
    IN  Strict([pt EXCEPT ![newLeafPageId].nextPageId = nxt,
                          ![newLeafPageId].prevPageId = leafPageId],
               LAMBDA pt1 :
        IF nxt # INVALID_PAGE_ID
        THEN [Fetch(pt1, nxt) EXCEPT ![nxt].prevPageId = newLeafPageId,
                                     ![leafPageId].nextPageId = newLeafPageId]
        ELSE [pt1 EXCEPT ![leafPageId].nextPageId = newLeafPageId])

\* Variant of LeafDivide: the merged sequence is divided at order / 2.
LeafDivideAtHalf(S, ord, leafPageId, key, value) ==
    LET newLeafPageId == S.next
        mid == ord \div 2
    IN  Strict(Fetch(Fetch(S.pt, leafPageId), newLeafPageId), LAMBDA pt1 :
        Strict(LeafMerge(pt1[leafPageId], key, value), LAMBDA t :
        Strict([pt1 EXCEPT
                  ![newLeafPageId].pageType = LEAF_PAGE,
                  ![leafPageId].keyCount = mid,
                  ![leafPageId].keys = CopyTo(SubSeq(t.keys, 1, mid), @),
                  ![leafPageId].values = CopyTo(SubSeq(t.values, 1, mid), @),
                  ![newLeafPageId].keyCount = Len(t.keys) - mid,
                  ![newLeafPageId].keys =
                      CopyTo(SubSeq(t.keys, mid + 1, Len(t.keys)), @),
                  ![newLeafPageId].values =
                      CopyTo(SubSeq(t.values, mid + 1, Len(t.values)), @)],
               LAMBDA pt2 :
        Strict(Relink(pt2, leafPageId, newLeafPageId), LAMBDA pt3 :
            [AllocatePage(S) EXCEPT
                !.pt = pt3,
                !.log = Append(@, SplitRecord("leaf", pt3, leafPageId,
                                              newLeafPageId,
                                              At(pt3[newLeafPageId].keys, 0),
                                              t.keys))]))))

\* The division of splitLeafPage and the relinking of the sibling chain.
LeafDivide(S, ord, leafPageId, key, value) ==
    LET newLeafPageId == S.next
        mid == (ord + 1) \div 2
    IN  Strict(Fetch(Fetch(S.pt, leafPageId), newLeafPageId), LAMBDA pt1 :
        Strict(LeafMerge(pt1[leafPageId], key, value), LAMBDA t :
        Strict([pt1 EXCEPT
                  ![newLeafPageId].pageType = LEAF_PAGE,
                  ![leafPageId].keyCount = mid,
                  ![leafPageId].keys = CopyTo(SubSeq(t.keys, 1, mid), @),
                  ![leafPageId].values = CopyTo(SubSeq(t.values, 1, mid), @),
                  ![newLeafPageId].keyCount = Len(t.keys) - mid,
                  ![newLeafPageId].keys =
                      CopyTo(SubSeq(t.keys, mid + 1, Len(t.keys)), @),
                  ![newLeafPageId].values =
                      CopyTo(SubSeq(t.values, mid + 1, Len(t.values)), @)],
               LAMBDA pt2 :
        Strict(Relink(pt2, leafPageId, newLeafPageId), LAMBDA pt3 :
            [AllocatePage(S) EXCEPT
                !.pt = pt3,
                !.log = Append(@, SplitRecord("leaf", pt3, leafPageId,
                                              newLeafPageId,
                                              At(pt3[newLeafPageId].keys, 0),
                                              t.keys))]))))

SplitLeafPage(S, ord, leafPageId, key, value, fuel) ==
    Strict(LeafDivide(S, ord, leafPageId, key, value),
           LAMBDA S1 : Propagate(S1, ord, leafPageId, fuel))

\* The direct branch of insert (keyCount < order - 1).
LeafInsertDirect(S, leafPageId, key, value) ==
    LET leaf == S.pt[leafPageId]
        n == leaf.keyCount
    IN  Strict(LowerPos(Slice(leaf.keys, n), key), LAMBDA pos :
        Strict([S EXCEPT
                  !.pt[leafPageId].keys = ShiftInsert(@, n, pos, key),
                  !.pt[leafPageId].values = ShiftInsert(@, n, pos, value),
                  !.pt[leafPageId].keyCount = n + 1], LAMBDA S1 :
        FlushPage(S1, leafPageId)))

\* The overwrite branch of insert, i being the first slot that holds key.
LeafOverwrite(S, leafPageId, i, value) ==
    Strict([S EXCEPT !.pt[leafPageId].values = Put(@, i, value)], LAMBDA S1 :
        FlushPage(S1, leafPageId))

\* Variant of Hits: only slot 0 is compared with key.
HitsFirstSlot(leaf, key) ==
    {i \in {0} : leaf.keyCount > 0 /\ At(leaf.keys, 0) = key}

\* The slots of a leaf that hold key.
Hits(leaf, key) == {i \in 0..(leaf.keyCount - 1) : At(leaf.keys, i) = key}

InsertOp(S, ord, key, value) ==
    Strict(FindLeafPage(S.pt, S.root, key), LAMBDA d :
        IF ~d.ok THEN [S EXCEPT !.pt = d.pt, !.ok = FALSE]
        ELSE Strict([S EXCEPT !.pt = Fetch(d.pt, d.leaf)], LAMBDA S1 :
             Strict(Hits(S1.pt[d.leaf], key), LAMBDA hits :
                 IF hits # {}
                 THEN LeafOverwrite(S1, d.leaf, Min(hits), value)
                 ELSE IF S1.pt[d.leaf].keyCount < OrderLimit(ord)
                 THEN LeafInsertDirect(S1, d.leaf, key, value)
                 ELSE SplitLeafPage(S1, ord, d.leaf, key, value,
                                    Cardinality(DOMAIN S1.pt) + 1))))

\* search: found, the value, the page table after the fetches, and
\* whether the call returned.
SearchOp(pt, root, key) ==
    Strict(FindLeafPage(pt, root, key), LAMBDA d :
        IF ~d.ok THEN [found |-> FALSE, value |-> 0, pt |-> d.pt, ok |-> FALSE]
        ELSE Strict(Fetch(d.pt, d.leaf), LAMBDA pt1 :
             Strict(Hits(pt1[d.leaf], key), LAMBDA hits :
                 IF hits # {}
                 THEN [found |-> TRUE,
                       value |-> At(pt1[d.leaf].values, Min(hits)),
                       pt |-> pt1, ok |-> TRUE]
                 ELSE [found |-> FALSE, value |-> 0, pt |-> pt1,
                       ok |-> TRUE])))

\* The pairs rangeQuery pushes from slot i on, up to slot stop.
RECURSIVE Collect(_, _, _, _, _)
Collect(leaf, startKey, endKey, i, stop) ==
    IF i >= stop THEN <<>>
    ELSE (IF At(leaf.keys, i) >= startKey /\ At(leaf.keys, i) <= endKey
          THEN <<<<At(leaf.keys, i), At(leaf.values, i)>>>>
          ELSE <<>>) \o Collect(leaf, startKey, endKey, i + 1, stop)

\* Variant of ScanLeaf: the scan returns at a key >= endKey.
ScanLeafStopsEarly(leaf, startKey, endKey) ==
    Strict({i \in 0..(leaf.keyCount - 1) : At(leaf.keys, i) >= endKey},
           LAMBDA over :
        [pairs |-> Collect(leaf, startKey, endKey, 0,
                           IF over = {} THEN leaf.keyCount ELSE Min(over)),
         done |-> over # {}])

\* The scan of one leaf by rangeQuery: the pairs pushed, and whether a key
\* greater than endKey made it return.
ScanLeaf(leaf, startKey, endKey) ==
    Strict({i \in 0..(leaf.keyCount - 1) : At(leaf.keys, i) > endKey},
           LAMBDA over :
        [pairs |-> Collect(leaf, startKey, endKey, 0,
                           IF over = {} THEN leaf.keyCount ELSE Min(over)),
         done |-> over # {}])

\* The walk of the leaf chain by rangeQuery; a walk over more leaves than
\* there are pages never ends (ok = FALSE).
RECURSIVE Walk(_, _, _, _, _)
Walk(pt, leafPageId, startKey, endKey, fuel) ==
    IF leafPageId = INVALID_PAGE_ID
    THEN [result |-> <<>>, pt |-> pt, ok |-> TRUE]
    ELSE IF fuel = 0 THEN [result |-> <<>>, pt |-> pt, ok |-> FALSE]
    ELSE Strict(Fetch(pt, leafPageId), LAMBDA pt1 :
         Strict(ScanLeaf(pt1[leafPageId], startKey, endKey), LAMBDA sc :
             IF sc.done
             THEN [result |-> sc.pairs, pt |-> pt1, ok |-> TRUE]
             ELSE Strict(Walk(pt1, pt1[leafPageId].nextPageId,
                              startKey, endKey, fuel - 1), LAMBDA rest :
                      [rest EXCEPT !.result = sc.pairs \o @])))

RangeQueryOp(pt, root, startKey, endKey) ==
    Strict(FindLeafPage(pt, root, startKey), LAMBDA d :
        IF ~d.ok THEN [result |-> <<>>, pt |-> d.pt, ok |-> FALSE]
        ELSE Walk(d.pt, d.leaf, startKey, endKey,
                  Cardinality(DOMAIN d.pt) + 1))

\* ------------------------------------------------------- PageHeader codec
MAGIC == <<18245, 20545>>

\* A uint16_t is a number below 2^16; a uint32_t is the pair of its 16-bit
\* halves <<low, high>> and a uint64_t the four of them, lowest first, so
\* that every value of the full width is representable.
U32(n) == <<n % 65536, n \div 65536>>

ByteAt(buf, p) == IF p \in DOMAIN buf THEN buf[p] ELSE 0

\* bytes written at buf + p (memcpy and the single byte stores).
WriteBytes(buf, p, bytes) ==
    LET keep == {o \in DOMAIN buf : o < p \/ o >= p + Len(bytes)}
        new == {p + j - 1 : j \in {i \in 1..Len(bytes) : bytes[i] # 0}}
    IN  [o \in keep \cup new |->
            IF o \in new THEN bytes[o - p + 1] ELSE buf[o]]

ReadBytes(buf, p, n) == [j \in 1..n |-> ByteAt(buf, p + j - 1)]

\* Variant of read_u16_le: the two bytes are taken in big-endian order.
read_u16_be(buf, p) == 256 * ByteAt(buf, p) + ByteAt(buf, p + 1)

read_u16_le(buf, p) == ByteAt(buf, p) + 256 * ByteAt(buf, p + 1)

read_u32_le(buf, p) == <<read_u16_le(buf, p), read_u16_le(buf, p + 2)>>

read_u64_le(buf, p) == read_u32_le(buf, p) \o read_u32_le(buf, p + 4)

write_u16_le(buf, p, v) ==
    WriteBytes(buf, p, <<v % 256, (v \div 256) % 256>>)

write_u32_le(buf, p, v) ==
    WriteBytes(buf, p, <<v[1] % 256, (v[1] \div 256) % 256,
                         v[2] % 256, (v[2] \div 256) % 256>>)

write_u64_le(buf, p, v) ==
    Strict(write_u32_le(buf, p, <<v[1], v[2]>>), LAMBDA b :
        write_u32_le(b, p + 4, <<v[3], v[4]>>))

serialize_header(h, buf) ==
    Strict(write_u32_le(buf, 0, h.checksum), LAMBDA b1 :
    Strict(write_u32_le(b1, 4, h.magic), LAMBDA b2 :
    Strict(write_u16_le(b2, 8, h.version), LAMBDA b3 :
    Strict(write_u16_le(b3, 10, h.page_type), LAMBDA b4 :
    Strict(write_u64_le(b4, 12, h.lsn), LAMBDA b5 :
    Strict(write_u32_le(b5, 20, h.page_id), LAMBDA b6 :
    Strict(write_u16_le(b6, 24, h.upper_ptr), LAMBDA b7 :
    Strict(write_u16_le(b7, 26, h.lower_ptr), LAMBDA b8 :
        write_u16_le(b8, 28, h.key_count)))))))))

deserialize_header(buf) ==
    [checksum |-> read_u32_le(buf, 0),
     magic |-> read_u32_le(buf, 4),
     version |-> read_u16_le(buf, 8),
     page_type |-> read_u16_le(buf, 10),
     lsn |-> read_u64_le(buf, 12),
     page_id |-> read_u32_le(buf, 20),
     upper_ptr |-> read_u16_le(buf, 24),
     lower_ptr |-> read_u16_le(buf, 26),
     key_count |-> read_u16_le(buf, 28)]

\* ------------------------------------------------------- page checksum
\* a ^ b on the low w bits.
RECURSIVE XorBits(_, _, _)
XorBits(a, b, w) ==
    IF w = 0 \/ (a = 0 /\ b = 0) THEN 0
    ELSE ((a + b) % 2) + 2 * XorBits(a \div 2, b \div 2, w - 1)

\* sum ^= data[i]; sum *= 16777619, in uint32_t: sum is <<low, high>> 16-bit
\* halves and 16777619 = 256 * 65536 + 403.
ChecksumStep(sum, byte) ==
    LET lo == (sum[1] - (sum[1] % 256)) + XorBits(sum[1] % 256, byte, 8)
        m == lo * 403
    IN  <<m % 65536, (sum[2] * 403 + lo * 256 + m \div 65536) % 65536>>

\* The loop of simple_checksum over the bytes from..to, in ascending order.
RECURSIVE ChecksumLoop(_, _, _, _)
ChecksumLoop(sum, buf, from, to) ==
    IF from > to THEN sum
    ELSE IF from = to THEN ChecksumStep(sum, ByteAt(buf, from))
    ELSE Strict(ChecksumLoop(sum, buf, from, (from + to) \div 2), LAMBDA s :
             ChecksumLoop(s, buf, (from + to) \div 2 + 1, to))

\* Variant of simple_checksum: the last byte is left out.
simple_checksum_short(buf, p, len) ==
    ChecksumLoop(<<40389, 33052>>, buf, p, p + len - 2)

\* simple_checksum(buf + p, len); sum starts as 2166136261
\* = 33052 * 65536 + 40389.
simple_checksum(buf, p, len) ==
    ChecksumLoop(<<40389, 33052>>, buf, p, p + len - 1)

verify_page_checksum(page_buf) ==
    read_u32_le(page_buf, 0) = simple_checksum(page_buf, 4, PAGE_SIZE - 4)

\* ------------------------------------------------------- the slotted Page
\* uint16_t arithmetic.
U16(n) == n % 65536

\* The four bytes of a non-negative int or of a uint32_t below 2^31 in the
\* host's (little-endian) order, and the int that four bytes hold (a
\* uint32_t of 2^31 or more is held as the int with the same bytes).
IntBytes(n) ==
    <<n % 256, (n \div 256) % 256, (n \div 65536) % 256, n \div 16777216>>

IntAt(buf, p) ==
    ByteAt(buf, p) + 256 * ByteAt(buf, p + 1) + 65536 * ByteAt(buf, p + 2)
        + 16777216 * (IF ByteAt(buf, p + 3) >= 128
                      THEN ByteAt(buf, p + 3) - 256 ELSE ByteAt(buf, p + 3))

\* The bytes of a record {key, value | child_page_id} padded to size bytes:
\* after the two ints come zero bytes and a closing byte 0xEE.
ItemBytes(key, value, size) ==
    [j \in 1..size |->
        IF j <= 4 THEN IntBytes(key)[j]
        ELSE IF j <= 8 THEN IntBytes(value)[j - 4]
        ELSE IF j = size THEN 238 ELSE 0]

\* data_ is [bytes, sum]: bytes holds the buffer, and sum, when it is not
\* empty, holds the bytes 4..4095 over which finalize_page_checksum computed
\* the checksum that bytes 0..3 store (bytes then has no entry below 4).
\* A zero byte has no entry in bytes.
Body(bytes) == [o \in {q \in DOMAIN bytes : q >= 4} |-> bytes[o]]

\* The checksum is kept as the bytes it was computed over until it is read.
SealChecksum(d) ==
    Strict(Body(d.bytes), LAMBDA b : [bytes |-> b, sum |-> <<b>>])

serialize_to_buffer(P) ==
    Strict(serialize_header(P.header_, P.data_.bytes), LAMBDA b :
        [P EXCEPT !.data_ = SealChecksum([bytes |-> b, sum |-> <<>>]),
                  !.dirty_ = TRUE])

init_header(P, page_id, type) ==
    serialize_to_buffer(
        [P EXCEPT !.header_ =
            [checksum |-> U32(0), magic |-> MAGIC, version |-> 1,
             page_type |-> type, lsn |-> <<0, 0, 0, 0>>,
             page_id |-> U32(page_id), upper_ptr |-> U16(PAGE_SIZE),
             lower_ptr |-> U16(HeaderSize), key_count |-> 0]])

\* Page() followed by init_header(page_id, type).
ConstructPage(page_id, type) ==
    init_header([data_ |-> [bytes |-> EmptyArr, sum |-> <<>>], header_ |-> [key_count |-> 0],
                 dirty_ |-> FALSE, is_pinned_ |-> FALSE], page_id, type)

is_leaf(P) == P.header_.page_type = LEAF_PAGE

get_free_space(P) == U16(P.header_.upper_ptr - P.header_.lower_ptr)

\* The address of slot slot_idx, and the SlotEntry stored at an address.
SlotOffset(slot_idx) == HeaderSize + slot_idx * SlotEntrySize

SlotAt(bytes, p) == [offset |-> IntAt(bytes, p), length |-> IntAt(bytes, p + 4)]

WriteSlot(bytes, p, offset, length) ==
    WriteBytes(bytes, p, IntBytes(offset) \o IntBytes(length))

\* Writes into data_ that are not followed by finalize_page_checksum leave
\* the stored checksum as it was.
Poke(P, bytes) == [P EXCEPT !.data_.bytes = bytes]

\* Variant of RequiredSpace: the slot entry is not counted.
RequiredSpaceNoSlot(item_size) == U16(item_size)

\* uint16_t required_space = sizeof(SlotEntry) + item_size.
RequiredSpace(item_size) == U16(SlotEntrySize + item_size)

\* The memcpy of insert_item would run past the end of data_.
Overruns(P, item_size) ==
    /\ get_free_space(P) >= RequiredSpace(item_size)
    /\ U16(P.header_.upper_ptr - item_size) + item_size > PAGE_SIZE

\* insert_item where it stays inside data_: [page, ok, slot_idx].
insert_item(P, item, item_size) ==
    IF get_free_space(P) < RequiredSpace(item_size)
    THEN [page |-> P, ok |-> FALSE, slot_idx |-> 0]
    ELSE Strict(U16(P.header_.upper_ptr - item_size), LAMBDA upper :
         Strict(WriteBytes(P.data_.bytes, upper, item), LAMBDA b1 :
         Strict(WriteSlot(b1, P.header_.lower_ptr, upper, item_size),
                LAMBDA b2 :
             [page |-> serialize_to_buffer(
                  [Poke(P, b2) EXCEPT
                      !.header_.upper_ptr = upper,
                      !.header_.lower_ptr = U16(@ + SlotEntrySize),
                      !.header_.key_count = U16(@ + 1)]),
              ok |-> TRUE, slot_idx |-> P.header_.key_count])))

insert_leaf_entry(P, key, value) ==
    insert_item(P, ItemBytes(key, value, LeafNodeSize), LeafNodeSize)

insert_internal_entry(P, key, child_page_id) ==
    insert_item(P, ItemBytes(key, child_page_id, LeafNodeSize), LeafNodeSize)

\* get_leaf_entry and get_internal_entry: [ok, key, value].
ReadEntry(P, slot_idx) ==
    Strict(SlotAt(P.data_.bytes, SlotOffset(slot_idx)).offset, LAMBDA o :
        [ok |-> TRUE, key |-> IntAt(P.data_.bytes, o),
         value |-> IntAt(P.data_.bytes, o + 4)])

\* Variant of get_leaf_entry: a slot of length 0 is not returned.
get_leaf_entry_live(P, slot_idx) ==
    IF slot_idx >= P.header_.key_count \/ ~is_leaf(P)
          \/ SlotAt(P.data_.bytes, SlotOffset(slot_idx)).length = 0
    THEN [ok |-> FALSE, key |-> 0, value |-> 0]
    ELSE ReadEntry(P, slot_idx)

get_leaf_entry(P, slot_idx) ==
    IF slot_idx >= P.header_.key_count \/ ~is_leaf(P)
    THEN [ok |-> FALSE, key |-> 0, value |-> 0]
    ELSE ReadEntry(P, slot_idx)

get_internal_entry(P, slot_idx) ==
    IF slot_idx >= P.header_.key_count \/ is_leaf(P)
    THEN [ok |-> FALSE, key |-> 0, value |-> 0]
    ELSE ReadEntry(P, slot_idx)

\* Variant of delete_item: the whole slot entry is cleared.
delete_item_clears(P, slot_idx) ==
    IF slot_idx >= P.header_.key_count THEN [page |-> P, ok |-> FALSE]
    ELSE [page |-> serialize_to_buffer(Poke(P,
              WriteBytes(P.data_.bytes, SlotOffset(slot_idx),
                         IntBytes(0) \o IntBytes(0)))),
          ok |-> TRUE]

\* delete_item: [page, ok].
delete_item(P, slot_idx) ==
    IF slot_idx >= P.header_.key_count THEN [page |-> P, ok |-> FALSE]
    ELSE [page |-> serialize_to_buffer(Poke(P,
              WriteBytes(P.data_.bytes, SlotOffset(slot_idx) + 4,
                         IntBytes(0)))),
          ok |-> TRUE]

\* memmove(buf + dst, buf + src, len).
MemMove(buf, dst, src, len) ==
    LET keep == {o \in DOMAIN buf : o < dst \/ o >= dst + len}
        new == {o - src + dst : o \in {q \in DOMAIN buf :
                                          q >= src /\ q < src + len}}
    IN  [o \in keep \cup new |->
            IF o \in new THEN buf[o - dst + src] ELSE buf[o]]

\* Variant of ValidItems: tombstoned slots are collected as well.
RECURSIVE ValidItemsAll(_, _)
ValidItemsAll(P, i) ==
    IF i >= P.header_.key_count THEN <<>>
    ELSE Strict(SlotAt(P.data_.bytes, SlotOffset(i)), LAMBDA se :
             <<[offset |-> U16(se.offset), length |-> U16(se.length)]>>
                 \o ValidItemsAll(P, i + 1))

\* The <offset, length> pairs compact collects: the slots with length > 0.
RECURSIVE ValidItems(_, _)
ValidItems(P, i) ==
    IF i >= P.header_.key_count THEN <<>>
    ELSE Strict(SlotAt(P.data_.bytes, SlotOffset(i)), LAMBDA se :
             (IF se.length > 0
              THEN <<[offset |-> U16(se.offset), length |-> U16(se.length)]>>
              ELSE <<>>) \o ValidItems(P, i + 1))

\* The second loop of compact: item i moves to new_upper and slot i takes
\* its new offset (the slot's length is not written).
RECURSIVE Repack(_, _, _, _)
Repack(bytes, valid_items, i, new_upper) ==
    IF i >= Len(valid_items) THEN [bytes |-> bytes, new_upper |-> new_upper]
    ELSE Strict(valid_items[i + 1], LAMBDA it :
         Strict(U16(new_upper - it.length), LAMBDA upper :
         Strict(IF it.offset # upper
                THEN MemMove(bytes, upper, it.offset, it.length)
                ELSE bytes, LAMBDA b1 :
             Repack(WriteBytes(b1, SlotOffset(i), IntBytes(upper)),
                    valid_items, i + 1, upper))))

compact(P) ==
    Strict(ValidItems(P, 0), LAMBDA valid_items :
    Strict(Repack(P.data_.bytes, valid_items, 0, U16(PAGE_SIZE)), LAMBDA r :
        serialize_to_buffer(
            [Poke(P, r.bytes) EXCEPT
                !.header_.upper_ptr = r.new_upper,
                !.header_.key_count = U16(Len(valid_items)),
                !.header_.lower_ptr =
                    U16(HeaderSize + U16(Len(valid_items)) * SlotEntrySize)])))

\* The key compared at slot mid by search_key.
MidKey(P, mid) ==
    IF is_leaf(P) THEN get_leaf_entry(P, mid) ELSE get_internal_entry(P, mid)

\* Variant of SearchLoop: a larger key at mid is not remembered.
RECURSIVE SearchLoopForgets(_, _, _, _, _)
SearchLoopForgets(P, key, left, right, result) ==
    IF left > right THEN result
    ELSE Strict(left + (right - left) \div 2, LAMBDA mid :
         Strict(MidKey(P, mid), LAMBDA e :
             IF ~e.ok THEN result
             ELSE IF e.key = key THEN mid
             ELSE IF e.key < key
                  THEN SearchLoopForgets(P, key, mid + 1, right, result)
                  ELSE SearchLoopForgets(P, key, left, mid - 1, result)))

RECURSIVE SearchLoop(_, _, _, _, _)
SearchLoop(P, key, left, right, result) ==
    IF left > right THEN result
    ELSE Strict(left + (right - left) \div 2, LAMBDA mid :
         Strict(MidKey(P, mid), LAMBDA e :
             IF ~e.ok THEN result
             ELSE IF e.key = key THEN mid
             ELSE IF e.key < key
                  THEN SearchLoop(P, key, mid + 1, right, result)
                  ELSE SearchLoop(P, key, left, mid - 1, mid)))

search_key(P, key) == SearchLoop(P, key, 0, P.header_.key_count - 1, -1)

\* for (i = 0; i < key_count; ++i) if (entry i is read and holds key) return i
RECURSIVE LinearLoop(_, _, _)
LinearLoop(P, key, i) ==
    IF i >= P.header_.key_count THEN -1
    ELSE Strict(MidKey(P, i), LAMBDA e :
             IF e.ok /\ e.key = key THEN i ELSE LinearLoop(P, key, i + 1))

linear_search_key(P, key) == LinearLoop(P, key, 0)

\* get_key_at_slot reads the key at the slot's offset.
get_key_at_slot(P, slot_idx) ==
    IntAt(P.data_.bytes, SlotAt(P.data_.bytes, SlotOffset(slot_idx)).offset)

RECURSIVE InsertionLoop(_, _, _, _)
InsertionLoop(P, target_key, left, right) ==
    IF left > right THEN U16(left)
    ELSE Strict(left + (right - left) \div 2, LAMBDA mid :
             IF get_key_at_slot(P, mid) < target_key
             THEN InsertionLoop(P, target_key, mid + 1, right)
             ELSE InsertionLoop(P, target_key, left, mid - 1))

find_insertion_point(P, target_key) ==
    InsertionLoop(P, target_key, 0, P.header_.key_count - 1)

\* insert_index_item reads dir_growth, current_dir_space and needs_new_dir,
\* which page.h does not declare: the page has no directory besides the
\* slot array, so nothing is reserved for one (needs_new_dir is false).
dir_growth == 0
current_dir_space == 0

\* uint16_t total_consumption = sizeof(SlotEntry) + item_size + dir_growth.
TotalConsumption(item_size) == U16(SlotEntrySize + item_size + dir_growth)

\* The memcpy of insert_index_item would run past the end of data_.
IndexOverruns(P, item_size) ==
    /\ ~(P.header_.lower_ptr + TotalConsumption(item_size)
            > P.header_.upper_ptr - current_dir_space)
    /\ U16(P.header_.upper_ptr - item_size) + item_size > PAGE_SIZE

\* insert_index_item where it stays inside data_: [page, ok, slot_idx].
\* The header in data_ and the stored checksum are not rewritten.
insert_index_item(P, item, item_size, key) ==
    Strict(find_insertion_point(P, key), LAMBDA target_idx :
        IF P.header_.lower_ptr + TotalConsumption(item_size)
              > P.header_.upper_ptr - current_dir_space
        THEN [page |-> P, ok |-> FALSE, slot_idx |-> 0]
        ELSE Strict(IF target_idx < P.header_.key_count
                    THEN MemMove(P.data_.bytes, SlotOffset(target_idx + 1),
                                 SlotOffset(target_idx),
                                 (P.header_.key_count - target_idx)
                                     * SlotEntrySize)
                    ELSE P.data_.bytes, LAMBDA b1 :
             Strict(U16(P.header_.upper_ptr - item_size), LAMBDA upper :
             Strict(WriteBytes(b1, upper, item), LAMBDA b2 :
                 [page |-> [Poke(P, WriteSlot(b2, SlotOffset(target_idx),
                                              upper, item_size)) EXCEPT
                               !.header_.upper_ptr = upper,
                               !.header_.key_count = U16(@ + 1),
                               !.header_.lower_ptr = U16(@ + SlotEntrySize),
                               !.dirty_ = TRUE],
                  ok |-> TRUE, slot_idx |-> target_idx]))))

\* The 4096 bytes of data_: a checksum that finalize_page_checksum left
\* to be computed is computed and stored in bytes 0..3.
Image(d) ==
    IF d.sum = <<>> THEN d.bytes
    ELSE Strict(simple_checksum(d.sum[1], 4, PAGE_SIZE - 4), LAMBDA cs :
             write_u32_le(Body(d.bytes), 0, cs))

\* deserialize_from_buffer: [page, ok].
deserialize_from_buffer(P) ==
    Strict(Image(P.data_), LAMBDA buf :
        IF read_u32_le(buf, 0) # simple_checksum(buf, 4, PAGE_SIZE - 4)
        THEN [page |-> P, ok |-> FALSE]
        ELSE Strict(deserialize_header(buf), LAMBDA h :
                 [page |-> [P EXCEPT !.header_ = h], ok |-> h.magic = MAGIC]))

\* load_from_disk where the read of PAGE_SIZE bytes succeeds: [page, ok].
load_from_disk(P, image) ==
    deserialize_from_buffer([P EXCEPT !.data_ = [bytes |-> image,
                                                  sum |-> <<>>]])

\* Variant of write_to_disk: the header is not serialized before the write.
write_to_disk_stale(P) ==
    [page |-> [P EXCEPT !.dirty_ = FALSE], image |-> Image(P.data_)]

\* write_to_disk where the write succeeds: [page, image].
write_to_disk(P) ==
    Strict(serialize_to_buffer(P), LAMBDA Q :
        [page |-> [Q EXCEPT !.dirty_ = FALSE], image |-> Image(Q.data_)])

set_page_id(P, page_id) ==
    serialize_to_buffer([P EXCEPT !.header_.page_id = page_id])

set_leaf(P, leaf) ==
    serialize_to_buffer(
        [P EXCEPT !.header_.page_type =
                      IF leaf THEN LEAF_PAGE ELSE INTERNAL_PAGE])

set_lsn(P, lsn) == serialize_to_buffer([P EXCEPT !.header_.lsn = lsn])

\* ------------------------------------------------------- the tree machine
\* n counts the calls made on the Page.
NoCall == [op |-> "none", ok |-> TRUE, ub |-> FALSE, n |-> 0]

NoOp == [op |-> "init", key |-> 0, dup |-> FALSE, changed |-> FALSE,
         log |-> <<>>, ok |-> TRUE]

\* PagedBPlusTree(ord): the initial empty leaf is the root.
Construct(ord) ==
    /\ order = ord
    /\ rootPageId = 1
    /\ nextPageId = 2
    /\ pageTable = [p \in {1} |-> [NewPage EXCEPT !.pageType = LEAF_PAGE]]
    /\ firstLeafPageId = 1
    /\ disk = {}

Ghosts ==
    /\ inserted = EmptyArr
    /\ lastOp = NoOp
    /\ rootChanges = 0
    /\ returned = <<>>
    /\ Page = ConstructPage(0, LEAF_PAGE)
    /\ call = NoCall
    /\ file = <<>>

Init == (\E ord \in Orders : Construct(ord)) /\ Ghosts

Work == [pt |-> pageTable, next |-> nextPageId, root |-> rootPageId,
         disk |-> disk, log |-> <<>>, ok |-> TRUE]

\* insert(key, value).  inserted, lastOp and rootChanges are history
\* variables: the latest value given to each key; the key of the call,
\* whether it had been inserted before and with another value, the splits the
\* call made and whether it returned; the number of changes of rootPageId.
Insert(key, value) ==
    \E S \in {InsertOp(Work, order, key, value)} :
        /\ pageTable' = S.pt
        /\ nextPageId' = S.next
        /\ rootPageId' = S.root
        /\ disk' = S.disk
        /\ inserted' = Put(inserted, key, value)
        /\ lastOp' = [op |-> "insert", key |-> key,
                      dup |-> key \in DOMAIN inserted,
                      changed |-> key \in DOMAIN inserted
                                  /\ At(inserted, key) # value,
                      log |-> S.log, ok |-> S.ok]
        /\ rootChanges' = IF S.root # rootPageId THEN rootChanges + 1
                          ELSE rootChanges
        /\ UNCHANGED <<firstLeafPageId, order, returned, Page, call, file>>

Next == \E key \in Keys, value \in Values : Insert(key, value)

Spec == Init /\ [][Next]_vars

\* Deeper trees: every key has one value of its own, and the keys come in
\* any order.
DeepValue(key) == 100 + key

NextDeep == \E key \in DeepKeys : Insert(key, DeepValue(key))

SpecDeep == Init /\ [][NextDeep]_vars

\* Wider trees: the keys up to MaxKey come in any order, the keys above
\* MaxKey in ascending order.
MaxInserted == IF DOMAIN inserted = {} THEN 0
               ELSE CHOOSE k \in DOMAIN inserted :
                        \A j \in DOMAIN inserted : j <= k

NextWide ==
    \/ \E key \in Keys : Insert(key, DeepValue(key))
    \/ \E key \in (MaxKey + 1)..MaxWideKey :
           /\ key = MaxInserted + 1
           /\ Insert(key, DeepValue(key))

SpecWide == Init /\ [][NextWide]_vars

\* main(): tree(4), then insert 10, 20, 5, 15, 25, 30, 35, 40.
ScenarioOrder == 4
ScenarioKeys == <<10, 20, 5, 15, 25, 30, 35, 40>>

InitScenario == Construct(ScenarioOrder) /\ Ghosts

NextScenario ==
    \E value \in Values :
        LET n == Cardinality(DOMAIN inserted)
        IN  /\ n < Len(ScenarioKeys)
            /\ Insert(ScenarioKeys[n + 1], value)

SpecScenario == InitScenario /\ [][NextScenario]_vars

\* Orders at and above the size of the page arrays: the constructor takes
\* any int.  The keys come in ascending order, so the rightmost leaf fills.
FillOrders == {MAX_KEYS_PER_PAGE + 1, MAX_KEYS_PER_PAGE + 2}

\* keys[MAX_KEYS_PER_PAGE], children[MAX_KEYS_PER_PAGE + 1] and
\* values[MAX_KEYS_PER_PAGE]: no index outside the arrays has been written.
InBounds ==
    \A p \in DOMAIN pageTable :
        /\ DOMAIN pageTable[p].keys \subseteq 0..(MAX_KEYS_PER_PAGE - 1)
        /\ DOMAIN pageTable[p].values \subseteq 0..(MAX_KEYS_PER_PAGE - 1)
        /\ DOMAIN pageTable[p].children \subseteq 0..MAX_KEYS_PER_PAGE

InitFill == (\E ord \in FillOrders : Construct(ord)) /\ Ghosts

\* After a write outside an array nothing more is known of the program.
NextFill ==
    /\ InBounds
    /\ \E key \in 1..MaxFillKey :
          /\ key = MaxInserted + 1
          /\ Insert(key, DeepValue(key))

SpecFill == InitFill /\ [][NextFill]_vars

\* ------------------------------------------ the buffer pool on its own
\* BufferPoolManager(): nextPageId(1), an empty page table.
InitPool ==
    /\ pageTable = [p \in {} |-> NewPage]
    /\ nextPageId = 1
    /\ disk = {}
    /\ rootPageId = INVALID_PAGE_ID
    /\ firstLeafPageId = INVALID_PAGE_ID
    /\ order = 0
    /\ Ghosts

\* return nextPageId++ : the id handed out is the value before the increment.
AllocatedId(S) == S.next

\* returned is a history variable: the ids allocatePage has returned.
PoolAllocate ==
    /\ nextPageId <= MaxPoolId
    /\ returned' = Append(returned, AllocatedId(Work))
    /\ nextPageId' = AllocatePage(Work).next
    /\ UNCHANGED <<pageTable, disk, rootPageId, firstLeafPageId, order,
                   inserted, lastOp, rootChanges, Page, call, file>>

PoolFetch(id) ==
    /\ pageTable' = Fetch(pageTable, id)
    /\ UNCHANGED <<nextPageId, disk, rootPageId, firstLeafPageId, order,
                   inserted, lastOp, rootChanges, returned, Page, call, file>>

PoolFlush(id) ==
    /\ \E S \in {FlushPage(Work, id)} : pageTable' = S.pt /\ disk' = S.disk
    /\ UNCHANGED <<nextPageId, rootPageId, firstLeafPageId, order,
                   inserted, lastOp, rootChanges, returned, Page, call, file>>

PoolDelete(id) ==
    /\ pageTable' = DeletePage(pageTable, id)
    /\ UNCHANGED <<nextPageId, disk, rootPageId, firstLeafPageId, order,
                   inserted, lastOp, rootChanges, returned, Page, call, file>>

NextPool ==
    \/ PoolAllocate
    \/ \E id \in PoolIds : PoolFetch(id)
    \/ \E id \in PoolIds : PoolFlush(id)
    \/ \E id \in PoolIds : PoolDelete(id)

SpecPool == InitPool /\ [][NextPool]_vars

\* A caller writing through the pointer fetchPage returned, as the tree does
\* when it makes a page the new root.
PoolWrite(id) ==
    /\ pageTable' = [Fetch(pageTable, id) EXCEPT
                        ![id].pageType = INTERNAL_PAGE,
                        ![id].keyCount = 1]
    /\ UNCHANGED <<nextPageId, disk, rootPageId, firstLeafPageId, order,
                   inserted, lastOp, rootChanges, returned, Page, call, file>>

NextStore ==
    \/ NextPool
    \/ \E id \in PoolIds : PoolWrite(id)

SpecStore == InitPool /\ [][NextStore]_vars

\* ---------------------------------------------------- the page machine
\* The states an out-of-bounds memcpy can leave: the call faults after
\* upper_ptr was lowered, or header_, which follows data_ in the object, is
\* overwritten with bytes of the item.
Overrun(P, item_size) ==
    {[P EXCEPT !.header_.upper_ptr = U16(@ - item_size)]}
    \cup {[P EXCEPT !.header_.upper_ptr = v, !.header_.lower_ptr = v,
                    !.header_.key_count = v] : v \in {0, 65535}}

TreeVars == <<pageTable, nextPageId, rootPageId, firstLeafPageId, order,
              disk, inserted, lastOp, rootChanges, returned>>

InitPage ==
    /\ \E type \in {LEAF_PAGE, INTERNAL_PAGE} : Page = ConstructPage(1, type)
    /\ call = NoCall
    /\ file = <<>>
    /\ pageTable = [p \in {} |-> NewPage]
    /\ nextPageId = 1
    /\ disk = {}
    /\ rootPageId = INVALID_PAGE_ID
    /\ firstLeafPageId = INVALID_PAGE_ID
    /\ order = 0
    /\ inserted = EmptyArr
    /\ lastOp = NoOp
    /\ rootChanges = 0
    /\ returned = <<>>

\* After an out-of-bounds write nothing more is known of the object; the
\* number of calls is bounded.
Callable == ~call.ub /\ call.n < MaxCalls

\* A call of one of the insert methods: r is its result where the call
\* stays inside data_.
InsertCall(op, item_size, overruns, r) ==
    /\ Callable
    /\ Page.header_.key_count < MaxSlots
    /\ IF overruns
       THEN /\ Page' \in Overrun(Page, item_size)
            /\ call' = [op |-> op, ok |-> TRUE, ub |-> TRUE, n |-> call.n + 1]
       ELSE \E x \in {r} :
            /\ Page' = x.page
            /\ call' = [op |-> op, ok |-> x.ok, ub |-> FALSE, n |-> call.n + 1]
    /\ UNCHANGED <<TreeVars, file>>

PageInsertLeaf(key, value) ==
    InsertCall("insert_leaf_entry", LeafNodeSize,
               Overruns(Page, LeafNodeSize),
               insert_leaf_entry(Page, key, value))

PageInsertInternal(key, child_page_id) ==
    InsertCall("insert_internal_entry", LeafNodeSize,
               Overruns(Page, LeafNodeSize),
               insert_internal_entry(Page, key, child_page_id))

PageInsertItem(key, value, item_size) ==
    InsertCall("insert_item", item_size, Overruns(Page, item_size),
               insert_item(Page, ItemBytes(key, value, item_size), item_size))

PageInsertIndex(key, value, item_size) ==
    InsertCall("insert_index_item", item_size,
               IndexOverruns(Page, item_size),
               insert_index_item(Page, ItemBytes(key, value, item_size),
                                 item_size, key))

PageDelete(slot_idx) ==
    /\ Callable
    /\ \E r \in {delete_item(Page, slot_idx)} :
          /\ Page' = r.page
          /\ call' = [op |-> "delete_item", ok |-> r.ok, ub |-> FALSE,
                      n |-> call.n + 1]
    /\ UNCHANGED <<TreeVars, file>>

PageCompact ==
    /\ Callable
    /\ Page' = compact(Page)
    /\ call' = [op |-> "compact", ok |-> TRUE, ub |-> FALSE,
                n |-> call.n + 1]
    /\ UNCHANGED <<TreeVars, file>>

NextPage ==
    \/ \E key \in PageKeys :
          \/ PageInsertLeaf(key, EntryValue(key))
          \/ PageInsertInternal(key, EntryValue(key))
    \/ \E key \in PageKeys, item_size \in ItemSizes :
          \/ PageInsertItem(key, EntryValue(key), item_size)
          \/ PageInsertIndex(key, EntryValue(key), item_size)
    \/ \E slot_idx \in 0..MaxSlots : PageDelete(slot_idx)
    \/ PageCompact

SpecPage == InitPage /\ [][NextPage]_vars

\* ---------------------------------------------------- the codec machine
\* The buffer handed to serialize_header is zeroed or holds 0xFF bytes.
\* PageHeader values: one 16-bit part of the header holds a, all the others
\* hold b, for a and b over values that tell the byte orders and the full
\* width apart (0x0102, 0xABCD, 0xFFFF).
SampleHeaders ==
    {[checksum |-> <<L[1], L[2]>>, magic |-> <<L[3], L[4]>>,
      version |-> L[5], page_type |-> L[6],
      lsn |-> <<L[7], L[8], L[9], L[10]>>, page_id |-> <<L[11], L[12]>>,
      upper_ptr |-> L[13], lower_ptr |-> L[14], key_count |-> L[15]] :
        L \in {[i \in 1..15 |-> IF i = k THEN a ELSE b] :
                  k \in 1..15, a \in {0, 1, 258, 43981, 65535},
                  b \in {0, 1, 258, 43981, 65535}}}

InitCodec ==
    /\ \E h \in SampleHeaders,
          buf \in {EmptyArr, [o \in 0..(HeaderSize + 1) |-> 255]} :
          Page = [data_ |-> [bytes |-> buf, sum |-> <<>>], header_ |-> h,
                  dirty_ |-> FALSE, is_pinned_ |-> FALSE]
    /\ call = NoCall
    /\ file = <<>>
    /\ pageTable = [p \in {} |-> NewPage]
    /\ nextPageId = 1
    /\ disk = {}
    /\ rootPageId = INVALID_PAGE_ID
    /\ firstLeafPageId = INVALID_PAGE_ID
    /\ order = 0
    /\ inserted = EmptyArr
    /\ lastOp = NoOp
    /\ rootChanges = 0
    /\ returned = <<>>

\* serialize_header(header_, data_).
CodecSerialize ==
    /\ Page' = Poke(Page, serialize_header(Page.header_, Page.data_.bytes))
    /\ call' = [NoCall EXCEPT !.op = "serialize_header"]
    /\ UNCHANGED <<TreeVars, file>>

\* deserialize_header(data_, header_).
CodecDeserialize ==
    /\ Page' = [Page EXCEPT !.header_ = deserialize_header(Page.data_.bytes)]
    /\ call' = [NoCall EXCEPT !.op = "deserialize_header"]
    /\ UNCHANGED <<TreeVars, file>>

NextCodec == CodecSerialize \/ CodecDeserialize

SpecCodec == InitCodec /\ [][NextCodec]_vars

\* ------------------------------------------------- the checksum machine
\* A page (fresh, or holding records) is written to disk, one byte of the
\* image may be changed, and the image is verified or loaded.  file holds
\* the image, call.off the offset of the changed byte.
InitChecksum ==
    /\ Page \in
          {ConstructPage(1, LEAF_PAGE),
           insert_item(insert_leaf_entry(ConstructPage(2, LEAF_PAGE),
                                         1, EntryValue(1)).page,
                       ItemBytes(2, EntryValue(2), BigItemSize),
                       BigItemSize).page,
           insert_internal_entry(ConstructPage(3, INTERNAL_PAGE),
                                 3, EntryValue(3)).page}
    /\ call = [op |-> "none", ok |-> TRUE, off |-> -1]
    /\ file = <<>>
    /\ pageTable = [p \in {} |-> NewPage]
    /\ nextPageId = 1
    /\ disk = {}
    /\ rootPageId = INVALID_PAGE_ID
    /\ firstLeafPageId = INVALID_PAGE_ID
    /\ order = 0
    /\ inserted = EmptyArr
    /\ lastOp = NoOp
    /\ rootChanges = 0
    /\ returned = <<>>

WriteToDisk ==
    /\ call.op = "none"
    /\ \E r \in {write_to_disk(Page)} :
          /\ Page' = r.page
          /\ file' = <<r.image>>
    /\ call' = [call EXCEPT !.op = "write_to_disk"]
    /\ UNCHANGED TreeVars

\* One byte of the image on disk takes another value.
Corrupt(off, v) ==
    /\ call.op = "write_to_disk"
    /\ ByteAt(file[1], off) # v
    /\ file' = <<WriteBytes(file[1], off, <<v>>)>>
    /\ call' = [call EXCEPT !.op = "corrupt", !.off = off]
    /\ UNCHANGED <<TreeVars, Page>>

VerifyImage ==
    /\ call.op \in {"write_to_disk", "corrupt"}
    /\ call' = [call EXCEPT !.op = "verify_page_checksum",
                            !.ok = verify_page_checksum(file[1])]
    /\ UNCHANGED <<TreeVars, Page, file>>

LoadImage ==
    /\ call.op \in {"write_to_disk", "corrupt"}
    /\ \E r \in {load_from_disk(Page, file[1])} :
          /\ Page' = r.page
          /\ call' = [call EXCEPT !.op = "load_from_disk", !.ok = r.ok]
    /\ UNCHANGED <<TreeVars, file>>

NextChecksum ==
    \/ WriteToDisk
    \/ \E off \in {4, 5, 8, 10, 24, 29, 30, 34, 2048, 4087, 4088, 4095},
          v \in {0, 1, 128, 255} : Corrupt(off, v)
    \/ VerifyImage
    \/ LoadImage

SpecChecksum == InitChecksum /\ [][NextChecksum]_vars

\* ---------------------------------------------- the persistence machine
\* A page, fresh or holding a record and a tombstone, takes up to
\* MaxStoreCalls calls, is written to disk, and the image is loaded into
\* another Page object; after the load Page is that other object.
InitPersist ==
    /\ Page \in
          {ConstructPage(1, LEAF_PAGE),
           delete_item(insert_leaf_entry(
                           insert_leaf_entry(ConstructPage(1, LEAF_PAGE),
                                             2, EntryValue(2)).page,
                           1, EntryValue(1)).page, 0).page}
    /\ call = NoCall
    /\ file = <<>>
    /\ pageTable = [p \in {} |-> NewPage]
    /\ nextPageId = 1
    /\ disk = {}
    /\ rootPageId = INVALID_PAGE_ID
    /\ firstLeafPageId = INVALID_PAGE_ID
    /\ order = 0
    /\ inserted = EmptyArr
    /\ lastOp = NoOp
    /\ rootChanges = 0
    /\ returned = <<>>

\* A call of set_lsn, set_page_id or set_leaf, Q being the page it leaves.
SetCall(op, Q) ==
    /\ Callable
    /\ Page' = Q
    /\ call' = [op |-> op, ok |-> TRUE, ub |-> FALSE, n |-> call.n + 1]
    /\ UNCHANGED <<TreeVars, file>>

PersistWrite ==
    /\ ~call.ub
    /\ file = <<>>
    /\ \E r \in {write_to_disk(Page)} :
          /\ Page' = r.page
          /\ file' = <<r.image>>
    /\ call' = [call EXCEPT !.op = "write_to_disk", !.ok = TRUE]
    /\ UNCHANGED TreeVars

PersistLoad ==
    /\ call.op = "write_to_disk"
    /\ \E r \in {load_from_disk(ConstructPage(0, INTERNAL_PAGE), file[1])} :
          /\ Page' = r.page
          /\ call' = [call EXCEPT !.op = "load_from_disk", !.ok = r.ok]
    /\ UNCHANGED <<TreeVars, file>>

NextPersist ==
    \/ /\ file = <<>>
       /\ call.n < MaxStoreCalls
       /\ \/ PageInsertLeaf(2, EntryValue(2))
          \/ \E key \in {1, 2}, item_size \in {LeafNodeSize, BigItemSize} :
                PageInsertIndex(key, EntryValue(key), item_size)
          \/ \E slot_idx \in {0, 1} : PageDelete(slot_idx)
          \/ PageCompact
          \/ SetCall("set_lsn", set_lsn(Page, <<1, 0, 258, 65535>>))
          \/ SetCall("set_page_id", set_page_id(Page, <<7, 43981>>))
          \/ SetCall("set_leaf", set_leaf(Page, ~is_leaf(Page)))
    \/ PersistWrite
    \/ PersistLoad

SpecPersist == InitPersist /\ [][NextPersist]_vars

\* ------------------------------------------- the splits, write by write
\* One write of an insert that splits: an assignment to a field or an array
\* element of a page, to rootPageId, or a call of allocatePage, fetchPage or
\* flushPage.
W(kind, page, idx, val) ==
    [kind |-> kind, page |-> page, idx |-> idx, val |-> val]

ApplyWrite(S, w) ==
    CASE w.kind = "alloc" -> AllocatePage(S)
      [] w.kind = "fetch" -> [S EXCEPT !.pt = Fetch(S.pt, w.page)]
      [] w.kind = "flush" -> FlushPage(S, w.page)
      [] w.kind = "root" -> [S EXCEPT !.root = w.val]
      [] w.kind \in {"keys", "values", "children"} ->
            [S EXCEPT !.pt[w.page][w.kind] = Put(@, w.idx, w.val)]
      [] OTHER -> [S EXCEPT !.pt[w.page][w.kind] = w.val]

\* The state after the writes ws, made in order.
RECURSIVE Run(_, _)
Run(S, ws) == IF ws = <<>> THEN S ELSE Run(ApplyWrite(S, Head(ws)), Tail(ws))

\* std::copy(seq.begin(), seq.end(), page->kind): one write per element.
CopyWrites(kind, page, seq) ==
    [i \in 1..Len(seq) |-> W(kind, page, i - 1, seq[i])]

\* The creation of a new root by either split routine.
NewRootWrites(S, leftId, rightId, key) ==
    LET newRootPageId == S.next
    IN  <<W("alloc", 0, 0, 0),
          W("fetch", newRootPageId, 0, 0),
          W("pageType", newRootPageId, 0, INTERNAL_PAGE),
          W("keyCount", newRootPageId, 0, 1),
          W("keys", newRootPageId, 0, key),
          W("children", newRootPageId, 0, leftId),
          W("children", newRootPageId, 1, rightId),
          W("parentPageId", leftId, 0, newRootPageId),
          W("parentPageId", rightId, 0, newRootPageId),
          W("root", 0, 0, newRootPageId)>>

RECURSIVE InsertInternalWrites(_, _, _, _, _, _)
RECURSIVE SplitInternalWrites(_, _, _, _, _, _)

\* What both split routines do after the division: the new root, or the
\* separator handed to the parent; then the two flushes.
UpWrites(S, ord, pageId, newPageId, sep, fuel) ==
    (IF pageId = S.root
     THEN NewRootWrites(S, pageId, newPageId, sep)
     ELSE LET parent == S.pt[pageId].parentPageId
              w == W("parentPageId", newPageId, 0, parent)
          IN  <<w>> \o InsertInternalWrites(ApplyWrite(S, w), ord, sep,
                                             parent, newPageId, fuel))
    \o <<W("flush", pageId, 0, 0), W("flush", newPageId, 0, 0)>>

\* insertInternal: the shifting loop from the top slot down, the new key and
\* child, keyCount++, the child's parent, the flush; or the split.
InsertInternalWrites(S, ord, key, internalPageId, childPageId, fuel) ==
    LET page == Fetch(S.pt, internalPageId)[internalPageId]
        n == page.keyCount
        pos == LowerPos(Slice(page.keys, n), key)
    IN  IF fuel = 0 THEN <<>>
        ELSE IF n < OrderLimit(ord)
        THEN <<W("fetch", internalPageId, 0, 0)>>
             \o [j \in 1..(2 * (n - pos)) |->
                   LET i == n - ((j - 1) \div 2)
                   IN  IF j % 2 = 1
                       THEN W("keys", internalPageId, i, At(page.keys, i - 1))
                       ELSE W("children", internalPageId, i + 1,
                              At(page.children, i))]
             \o <<W("keys", internalPageId, pos, key),
                  W("children", internalPageId, pos + 1, childPageId),
                  W("keyCount", internalPageId, 0, n + 1),
                  W("fetch", childPageId, 0, 0),
                  W("parentPageId", childPageId, 0, internalPageId),
                  W("flush", internalPageId, 0, 0)>>
        ELSE <<W("fetch", internalPageId, 0, 0)>>
             \o SplitInternalWrites(S, ord, internalPageId, key, childPageId,
                                    fuel)

SplitInternalWrites(S, ord, internalPageId, key, childPageId, fuel) ==
    LET newInternalPageId == S.next
        mid == (ord + 1) \div 2
        t == InternalMerge(Fetch(S.pt, internalPageId)[internalPageId],
                           key, childPageId)
        right == SubSeq(t.children, mid + 2, Len(t.children))
        head ==
            <<W("fetch", internalPageId, 0, 0),
              W("alloc", 0, 0, 0),
              W("fetch", newInternalPageId, 0, 0),
              W("pageType", newInternalPageId, 0, INTERNAL_PAGE),
              W("keyCount", internalPageId, 0, mid)>>
            \o CopyWrites("keys", internalPageId, SubSeq(t.keys, 1, mid))
            \o CopyWrites("children", internalPageId,
                          SubSeq(t.children, 1, mid + 1))
            \o <<W("keyCount", newInternalPageId, 0, Len(t.keys) - mid - 1)>>
            \o CopyWrites("keys", newInternalPageId,
                          SubSeq(t.keys, mid + 2, Len(t.keys)))
            \o CopyWrites("children", newInternalPageId, right)
            \o [j \in 1..(2 * Len(right)) |->
                  IF j % 2 = 1
                  THEN W("fetch", right[(j + 1) \div 2], 0, 0)
                  ELSE W("parentPageId", right[j \div 2], 0,
                         newInternalPageId)]
    IN  head \o UpWrites(Run(S, head), ord, internalPageId,
                         newInternalPageId, t.keys[mid + 1], fuel - 1)

SplitLeafWrites(S, ord, leafPageId, key, value, fuel) ==
    LET newLeafPageId == S.next
        mid == (ord + 1) \div 2
        leaf == Fetch(S.pt, leafPageId)[leafPageId]
        t == LeafMerge(leaf, key, value)
        nxt == leaf.nextPageId
        head ==
            <<W("fetch", leafPageId, 0, 0),
              W("alloc", 0, 0, 0),
              W("fetch", newLeafPageId, 0, 0),
              W("pageType", newLeafPageId, 0, LEAF_PAGE),
              W("keyCount", leafPageId, 0, mid)>>
            \o CopyWrites("keys", leafPageId, SubSeq(t.keys, 1, mid))
            \o CopyWrites("values", leafPageId, SubSeq(t.values, 1, mid))
            \o <<W("keyCount", newLeafPageId, 0, Len(t.keys) - mid)>>
            \o CopyWrites("keys", newLeafPageId,
                          SubSeq(t.keys, mid + 1, Len(t.keys)))
            \o CopyWrites("values", newLeafPageId,
                          SubSeq(t.values, mid + 1, Len(t.values)))
            \o <<W("nextPageId", newLeafPageId, 0, nxt),
                 W("prevPageId", newLeafPageId, 0, leafPageId)>>
            \o (IF nxt # INVALID_PAGE_ID
                THEN <<W("fetch", nxt, 0, 0),
                       W("prevPageId", nxt, 0, newLeafPageId)>>
                ELSE <<>>)
            \o <<W("nextPageId", leafPageId, 0, newLeafPageId)>>
    IN  Strict(Run(S, head), LAMBDA S1 :
            head \o UpWrites(S1, ord, leafPageId, newLeafPageId,
                             At(S1.pt[newLeafPageId].keys, 0), fuel))

\* An insert that does not split, as one step.
InsertWhole(key, value) ==
    /\ call.op = "none"
    /\ InsertOp(Work, order, key, value).log = <<>>
    /\ Insert(key, value)

\* An insert that splits: the descent and the check of the leaf, which
\* write nothing; todo holds the writes of splitLeafPage that are to come
\* and goal the state insert returns in.
BeginSplit(key, value) ==
    /\ call.op = "none"
    /\ \E goal \in {InsertOp(Work, order, key, value)} :
       \E d \in {FindLeafPage(pageTable, rootPageId, key)} :
          /\ goal.log # <<>>
          /\ call' = [op |-> "split", ok |-> TRUE, ub |-> FALSE, n |-> 0,
                      key |-> key, value |-> value, goal |-> goal,
                      todo |-> SplitLeafWrites(Work, order, d.leaf, key, value,
                                  Cardinality(DOMAIN pageTable) + 1)]
    /\ UNCHANGED <<TreeVars, Page, file>>

\* The next write of the split in progress; the last one ends the insert.
WriteStep ==
    /\ call.op = "split"
    /\ call.todo # <<>>
    /\ \E S \in {ApplyWrite(Work, Head(call.todo))} :
          /\ pageTable' = S.pt
          /\ nextPageId' = S.next
          /\ rootPageId' = S.root
          /\ disk' = S.disk
          /\ rootChanges' = IF S.root # rootPageId THEN rootChanges + 1
                            ELSE rootChanges
    /\ IF Len(call.todo) = 1
       THEN /\ call' = NoCall
            /\ inserted' = Put(inserted, call.key, call.value)
            /\ lastOp' = [op |-> "insert", key |-> call.key,
                          dup |-> FALSE, changed |-> FALSE,
                          log |-> call.goal.log, ok |-> call.goal.ok]
       ELSE /\ call' = [call EXCEPT !.todo = Tail(@), !.n = @ + 1]
            /\ UNCHANGED <<inserted, lastOp>>
    /\ UNCHANGED <<firstLeafPageId, order, returned, Page, file>>

NextSteps ==
    \/ \E key \in Keys : InsertWhole(key, DeepValue(key))
    \/ \E key \in Keys : BeginSplit(key, DeepValue(key))
    \/ WriteStep

SpecSteps == Init /\ [][NextSteps]_vars

\* ------------------------------------------------- reading the tree state
Range(seq) == {seq[i] : i \in 1..Len(seq)}

LiveKeys(page) == Slice(page.keys, page.keyCount)

\* The child page ids an internal page holds in children[0..keyCount].
ChildIds(p) ==
    IF p \in DOMAIN pageTable /\ pageTable[p].pageType = INTERNAL_PAGE
    THEN {At(pageTable[p].children, i) : i \in 0..pageTable[p].keyCount}
    ELSE {}

RECURSIVE ReachFrom(_, _)
ReachFrom(S, n) ==
    IF n = 0 THEN S
    ELSE Strict(S \cup UNION {ChildIds(p) : p \in S}, LAMBDA T :
             IF T = S THEN S ELSE ReachFrom(T, n - 1))

\* The pages reachable from the root.
TreePages == ReachFrom({rootPageId}, Cardinality(DOMAIN pageTable))

\* The leaf chain from page p: the page ids up to the first INVALID_PAGE_ID.
RECURSIVE ChainFrom(_, _)
ChainFrom(p, fuel) ==
    IF p = INVALID_PAGE_ID \/ p \notin DOMAIN pageTable \/ fuel = 0 THEN <<>>
    ELSE <<p>> \o ChainFrom(pageTable[p].nextPageId, fuel - 1)

ChainPages == ChainFrom(firstLeafPageId, Cardinality(DOMAIN pageTable))

RECURSIVE KeysOf(_)
KeysOf(pages) ==
    IF pages = <<>> THEN <<>>
    ELSE LiveKeys(pageTable[Head(pages)]) \o KeysOf(Tail(pages))

\* The number of levels on the leftmost path, and the leaf at its end.
RECURSIVE LeftPath(_, _)
LeftPath(p, fuel) ==
    IF p \notin DOMAIN pageTable \/ fuel = 0 THEN <<>>
    ELSE IF pageTable[p].pageType = LEAF_PAGE THEN <<p>>
    ELSE <<p>> \o LeftPath(At(pageTable[p].children, 0), fuel - 1)

Height == Len(LeftPath(rootPageId, Cardinality(DOMAIN pageTable)))

LeftmostLeaf ==
    LET path == LeftPath(rootPageId, Cardinality(DOMAIN pageTable))
    IN  IF path = <<>> THEN INVALID_PAGE_ID ELSE path[Len(path)]

C2_ChainAscending ==
    \E pages \in {ChainPages} :
    \E ks \in {KeysOf(pages)} :
        /\ pages # <<>>
        /\ pageTable[pages[Len(pages)]].nextPageId = INVALID_PAGE_ID
        /\ \A i \in 1..(Len(ks) - 1) : ks[i] < ks[i + 1]
        /\ Range(ks) = DOMAIN inserted
        /\ firstLeafPageId = 1
        /\ firstLeafPageId = LeftmostLeaf

\* A chain of at least four leaves under a root that split twice, the last
\* insert having split a leaf that had a successor.
C2_Witness ==
    /\ Len(ChainPages) >= 4
    /\ rootChanges >= 2
    /\ lastOp.log # <<>>
    /\ pageTable[lastOp.log[1].right].nextPageId # INVALID_PAGE_ID

\* ------------------------------------------------------------------ C3
\* The pairs a range query must return for the keys inserted so far.
RECURSIVE ExpectedRange(_, _)
ExpectedRange(startKey, endKey) ==
    IF startKey > endKey THEN <<>>
    ELSE (IF startKey \in DOMAIN inserted
          THEN <<<<startKey, inserted[startKey]>>>>
          ELSE <<>>) \o ExpectedRange(startKey + 1, endKey)

\* C3: for every pair (start, end), including start > end and bounds outside
\* the stored key range, rangeQuery(start, end) returns exactly the stored
\* (key, value) pairs with start <= key <= end, each once, in ascending key
\* order, and never a key greater than end.
C3_RangeExact ==
    \A startKey \in QueryKeys, endKey \in QueryKeys :
        \E r \in {RangeQueryOp(pageTable, rootPageId, startKey, endKey)} :
            /\ r.ok
            /\ r.result = ExpectedRange(startKey, endKey)

\* A query that starts inside one leaf, crosses into later leaves and stops
\* before the end of the chain.
C3_Witness ==
    /\ rootChanges >= 2
    /\ Len(ChainPages) >= 4
    /\ \E startKey \in QueryKeys, endKey \in QueryKeys :
          /\ Len(RangeQueryOp(pageTable, rootPageId, startKey, endKey).result) >= 3
          /\ \E k \in DOMAIN inserted : k < startKey
          /\ \E k \in DOMAIN inserted : k > endKey

\* ------------------------------------------------------------------ C4
\* Everything of a page but its values.
Structure(page) == [page EXCEPT !.values = EmptyArr]

\* C4: insert(key, value) with a key already present only replaces that key's
\* value: no page is allocated, no split occurs, and root_page_id, every
\* page's keyCount, keys, children, parent and next/prev links are unchanged.
C4_OverwriteFrame ==
    [][(lastOp'.op = "insert" /\ lastOp'.dup) =>
          /\ lastOp'.log = <<>>
          /\ nextPageId' = nextPageId
          /\ rootPageId' = rootPageId
          /\ DOMAIN pageTable' = DOMAIN pageTable
          /\ \A p \in DOMAIN pageTable :
                /\ Structure(pageTable'[p]) = Structure(pageTable[p])
                /\ DOMAIN pageTable'[p].values = DOMAIN pageTable[p].values
                /\ \A i \in DOMAIN pageTable[p].values :
                      IF /\ pageTable[p].pageType = LEAF_PAGE
                         /\ i < pageTable[p].keyCount
                         /\ At(pageTable[p].keys, i) = lastOp'.key
                      THEN pageTable'[p].values[i] = inserted'[lastOp'.key]
                      ELSE pageTable'[p].values[i] = pageTable[p].values[i]
    ]_vars

\* A key of a full leaf below an internal root re-inserted with another value.
C4_Witness ==
    /\ lastOp.op = "insert"
    /\ lastOp.changed
    /\ rootChanges >= 1
    /\ \E p \in TreePages :
          /\ pageTable[p].pageType = LEAF_PAGE
          /\ pageTable[p].keyCount = order - 1
          /\ \E i \in 1..(pageTable[p].keyCount - 1) :
                At(pageTable[p].keys, i) = lastOp.key

\* ------------------------------------------------------------------ C5
\* The slot of page id c among the children children[0..keyCount] of page p.
SlotsOf(p, c) ==
    {j \in 0..pageTable[p].keyCount : At(pageTable[p].children, j) = c}

\* C5: after any leaf or internal split, every key in the left (original)
\* page is strictly less than every key in the right (new) page, and the
\* separator key stored in the parent for the new page equals the first key
\* of the right page for a leaf split, or the promoted median key for an
\* internal split.
C5_SplitInvariant ==
    \A n \in 1..Len(lastOp.log) :
        \E rec \in {lastOp.log[n]} :
        \E parent \in {pageTable[rec.right].parentPageId} :
            /\ \A a \in Range(rec.leftKeys), b \in Range(rec.rightKeys) : a < b
            /\ rec.kind = "leaf" =>
                  /\ rec.rightKeys # <<>>
                  /\ rec.sep = rec.rightKeys[1]
            /\ rec.kind = "internal" =>
                  /\ rec.sep = rec.merged[((order + 1) \div 2) + 1]
                  /\ \A a \in Range(rec.leftKeys) : a < rec.sep
                  /\ \A b \in Range(rec.rightKeys) : rec.sep < b
            /\ parent \in DOMAIN pageTable
            /\ pageTable[parent].pageType = INTERNAL_PAGE
            /\ Cardinality(SlotsOf(parent, rec.right)) = 1
            /\ \A j \in SlotsOf(parent, rec.right) :
                  j >= 1 => At(pageTable[parent].keys, j - 1) = rec.sep

\* An insert that split a leaf and then an internal page whose two halves
\* both hold keys; the new internal page sits right of a separator.
C5_Witness ==
    /\ Len(lastOp.log) = 2
    /\ lastOp.log[2].kind = "internal"
    /\ lastOp.log[2].leftKeys # <<>>
    /\ lastOp.log[2].rightKeys # <<>>
    /\ \E j \in SlotsOf(pageTable[lastOp.log[2].right].parentPageId,
                        lastOp.log[2].right) : j >= 1

\* ------------------------------------------------------------------ C6
\* C6: for order >= 2 no page ever holds more than order - 1 keys after an
\* insert: a page at the limit is split by the insert that would overfill
\* it, and the split distributes exactly order merged keys.
C6_KeyCountBounded ==
    /\ \A p \in TreePages \cup Range(ChainPages) :
          pageTable[p].keyCount <= order - 1
    /\ \A n \in 1..Len(lastOp.log) : Len(lastOp.log[n].merged) = order

\* A leaf and an internal page both at the limit, after an internal split.
C6_Witness ==
    /\ \E n \in 1..Len(lastOp.log) : lastOp.log[n].kind = "internal"
    /\ \E p \in TreePages :
          /\ pageTable[p].pageType = LEAF_PAGE
          /\ pageTable[p].keyCount = order - 1
    /\ \E p \in TreePages :
          /\ pageTable[p].pageType = INTERNAL_PAGE
          /\ pageTable[p].keyCount = order - 1

\* ------------------------------------------------------------------ C7
\* The keys stored in the leaves of the subtree rooted at page c.
SubtreeKeys(c) ==
    UNION {Range(LiveKeys(pageTable[q])) :
             q \in {r \in ReachFrom({c}, Cardinality(DOMAIN pageTable)) :
                       /\ r \in DOMAIN pageTable
                       /\ pageTable[r].pageType = LEAF_PAGE}}

\* The child slots the descent can follow from an internal page.
ChildSlots(page) ==
    {UpperPos(LiveKeys(page), k) : k \in 0..(MaxWideKey + 1)}

\* C7 as stated: an internal page with N keys has exactly N child pointers,
\* used consistently by new-root creation, internal insertion, internal
\* split and the descent.
C7_Original ==
    \A p \in TreePages :
        pageTable[p].pageType = INTERNAL_PAGE =>
            Cardinality(ChildSlots(pageTable[p])) = pageTable[p].keyCount

\* C7: an internal page with N keys has exactly N + 1 child pointers
\* children[0..N]: the descent follows exactly those slots, each names a
\* distinct resident page whose parent is this page, and the keys of the
\* subtree under children[i] lie in [keys[i-1], keys[i]).
C7_KeysPlusOneChildren ==
    \A p \in TreePages :
        pageTable[p].pageType = INTERNAL_PAGE =>
            \E page \in {pageTable[p]} :
                /\ ChildSlots(page) = 0..page.keyCount
                /\ Cardinality(ChildIds(p)) = page.keyCount + 1
                /\ \A c \in ChildIds(p) :
                      /\ c # INVALID_PAGE_ID
                      /\ c \in DOMAIN pageTable
                      /\ pageTable[c].parentPageId = p
                /\ \A i \in 0..page.keyCount :
                   \A k \in SubtreeKeys(At(page.children, i)) :
                      /\ i >= 1 => At(page.keys, i - 1) <= k
                      /\ i < page.keyCount => k < At(page.keys, i)

\* The root was replaced twice and some internal page holds several keys.
C7_Witness ==
    /\ rootChanges >= 2
    /\ \E p \in TreePages :
          /\ pageTable[p].pageType = INTERNAL_PAGE
          /\ p # rootPageId
    /\ \E p \in TreePages :
          /\ pageTable[p].pageType = INTERNAL_PAGE
          /\ pageTable[p].keyCount >= 2
\* ------------------------------------------------------------------ C8
\* C8: with order 4 and the keys 10, 20, 5, 15, 25, 30, 35, 40 inserted in
\* that order the root changes exactly once and the tree ends with two
\* levels (an internal root above leaves); rangeQuery(10, 30) then returns
\* the keys 10, 15, 20, 25, 30 in that order with their values.
C8_Scenario ==
    Cardinality(DOMAIN inserted) = Len(ScenarioKeys) =>
        /\ rootChanges = 1
        /\ Height = 2
        /\ pageTable[rootPageId].pageType = INTERNAL_PAGE
        /\ \A c \in ChildIds(rootPageId) : pageTable[c].pageType = LEAF_PAGE
        /\ \E R \in {RangeQueryOp(pageTable, rootPageId, 10, 30)} :
              /\ R.ok
              /\ R.result = ExpectedRange(10, 30)
              /\ [i \in 1..Len(R.result) |-> R.result[i][1]]
                    = <<10, 15, 20, 25, 30>>

\* All eight keys of the scenario are in.
C8_Witness ==
    /\ order = ScenarioOrder
    /\ DOMAIN inserted = Range(ScenarioKeys)
    /\ lastOp.key = ScenarioKeys[Len(ScenarioKeys)]
    /\ pageTable[rootPageId].keyCount = 3

\* ------------------------------------------------------------------ C9
\* C9: insert always completes: its descent and its chain of splits end,
\* with at most one split per level, and the key is then stored in the tree
\* with the value given.
C9_InsertCompletes ==
    lastOp.op = "insert" =>
        /\ lastOp.ok
        /\ Len(lastOp.log) <= Height - 1
        /\ \A n \in 1..Len(lastOp.log) :
              (lastOp.log[n].kind = "leaf") = (n = 1)
        /\ \E R \in {SearchOp(pageTable, rootPageId, lastOp.key)} :
              /\ R.ok
              /\ R.found
              /\ R.value = inserted[lastOp.key]

\* An insert whose splits went from the leaf through an internal page up to
\* the root.
C9_Witness ==
    /\ lastOp.op = "insert"
    /\ Len(lastOp.log) >= 3
    /\ rootChanges >= 2
    /\ pageTable[rootPageId].keyCount = 1

\* ----------------------------------------------------------------- C10
\* C10: the ids allocatePage returns are strictly increasing and start at 1:
\* no id is returned twice, not even after deletePage, and INVALID_PAGE_ID
\* is never returned.
C10_AllocateIncreasing ==
    \A i \in 1..Len(returned) :
        /\ returned[i] # INVALID_PAGE_ID
        /\ returned[i] = i
        /\ \A j \in 1..(i - 1) : returned[j] < returned[i]

\* Three allocations, the first id fetched, flushed and deleted in between.
C10_Witness ==
    /\ Len(returned) >= 3
    /\ returned[1] \in disk
    /\ returned[1] \notin DOMAIN pageTable
    /\ returned[2] \in DOMAIN pageTable
\* ----------------------------------------------------------------- C11
\* C11: fetchPage(id) returns the resident page with its contents preserved
\* on every call until deletePage(id); for an id that is not resident it
\* creates a fresh empty page (LEAF_PAGE, keyCount 0, parent/next/prev =
\* INVALID_PAGE_ID); deletePage removes only that id and leaves every other
\* resident page unchanged.
C11_FetchAndDelete ==
    [][\A id \in PoolIds :
          /\ PoolFetch(id) =>
                /\ DOMAIN pageTable' = DOMAIN pageTable \cup {id}
                /\ \A p \in DOMAIN pageTable : pageTable'[p] = pageTable[p]
                /\ id \notin DOMAIN pageTable =>
                      /\ pageTable'[id].pageType = LEAF_PAGE
                      /\ pageTable'[id].keyCount = 0
                      /\ pageTable'[id].parentPageId = INVALID_PAGE_ID
                      /\ pageTable'[id].nextPageId = INVALID_PAGE_ID
                      /\ pageTable'[id].prevPageId = INVALID_PAGE_ID
          /\ PoolDelete(id) =>
                /\ DOMAIN pageTable' = DOMAIN pageTable \ {id}
                /\ \A p \in DOMAIN pageTable' : pageTable'[p] = pageTable[p]
          /\ (id \in DOMAIN pageTable /\ ~PoolDelete(id)) =>
                id \in DOMAIN pageTable'
    ]_vars

\* A written page and a fresh page are resident, and an id that was flushed
\* has since been deleted.
C11_Witness ==
    /\ \E p \in DOMAIN pageTable : pageTable[p].pageType = INTERNAL_PAGE
    /\ \E p \in DOMAIN pageTable :
          /\ pageTable[p].pageType = LEAF_PAGE
          /\ p \in disk
    /\ \E p \in disk : p \notin DOMAIN pageTable

\* ---------------------------------------------------------------- C12
\* C12: after init and after any sequence of insert, delete and compact
\* calls, sizeof(PageHeader) <= lower_ptr <= upper_ptr <= PAGE_SIZE and
\* lower_ptr = sizeof(PageHeader) + sizeof(SlotEntry) * key_count.
C12_PointersOrdered ==
    /\ HeaderSize <= Page.header_.lower_ptr
    /\ Page.header_.lower_ptr <= Page.header_.upper_ptr
    /\ Page.header_.upper_ptr <= PAGE_SIZE
    /\ Page.header_.lower_ptr
          = HeaderSize + SlotEntrySize * Page.header_.key_count

\* ---------------------------------------------------------------- C13
\* C13: an insert of a record of size s either succeeds, lowering
\* free_space() by exactly s + sizeof(SlotEntry) and raising key_count by
\* one, or fails because free_space() < s + sizeof(SlotEntry) and leaves
\* the buffer and the header unchanged.
C13_InsertLaw ==
    [][\A key \in PageKeys, s \in ItemSizes \cup {LeafNodeSize} :
          (\/ PageInsertItem(key, EntryValue(key), s)
           \/ PageInsertIndex(key, EntryValue(key), s)
           \/ (s = LeafNodeSize /\ PageInsertLeaf(key, EntryValue(key)))
           \/ (s = LeafNodeSize /\ PageInsertInternal(key, EntryValue(key))))
          => \/ /\ call'.ok
                /\ get_free_space(Page')
                      = get_free_space(Page) - (s + SlotEntrySize)
                /\ Page'.header_.key_count = Page.header_.key_count + 1
             \/ /\ ~call'.ok
                /\ get_free_space(Page) < s + SlotEntrySize
                /\ Page'.data_ = Page.data_
                /\ Page'.header_ = Page.header_]_vars

\* ---------------------------------------------------------------- C14
\* C14: on a leaf page filled by insert_leaf_entry with distinct keys in any
\* order, the slot directory lists the records in ascending key order and
\* search_key(k) returns the directory index of the record with key k.
\* (n calls of insert_leaf_entry on a fresh page leave slot i at offset
\* PAGE_SIZE - (i + 1) * sizeof(LeafNode) with length sizeof(LeafNode).)
C14_LeafInsertsSorted ==
    LET n == Page.header_.key_count
        keyAt(i) == get_key_at_slot(Page, i)
        filled ==
            /\ ~call.ub
            /\ call.op = "insert_leaf_entry"
            /\ is_leaf(Page)
            /\ n > 0
            /\ \A i \in 0..(n - 1) :
                  SlotAt(Page.data_.bytes, SlotOffset(i))
                      = [offset |-> PAGE_SIZE - (i + 1) * LeafNodeSize,
                         length |-> LeafNodeSize]
            /\ \A i, j \in 0..(n - 1) : i # j => keyAt(i) # keyAt(j)
    IN  filled =>
            /\ \A i \in 0..(n - 2) : keyAt(i) < keyAt(i + 1)
            /\ \A i \in 0..(n - 1) : search_key(Page, keyAt(i)) = i

\* ---------------------------------------------------------------- C15
\* C15: on a page whose slots are in ascending key order, search_key(key)
\* returns the index of a slot holding key when key is present, otherwise
\* the index of the first slot whose key is greater than key, and -1 when
\* every stored key is smaller than key or the page is empty.
C15_SearchAscending ==
    LET n == Page.header_.key_count
        keyAt(i) == get_key_at_slot(Page, i)
        ascending == \A i \in 0..(n - 2) : keyAt(i) <= keyAt(i + 1)
    IN  (~call.ub /\ ascending) =>
            \A key \in 0..(MaxPageKey + 1) :
                \E r \in {search_key(Page, key)} :
                    IF \E i \in 0..(n - 1) : keyAt(i) = key
                    THEN r \in 0..(n - 1) /\ keyAt(r) = key
                    ELSE IF \E i \in 0..(n - 1) : keyAt(i) > key
                    THEN /\ r \in 0..(n - 1)
                         /\ keyAt(r) > key
                         /\ \A i \in 0..(r - 1) : keyAt(i) < key
                    ELSE r = -1

C15_Witness ==
    LET n == Page.header_.key_count
        keyAt(i) == get_key_at_slot(Page, i)
    IN  /\ ~call.ub
        /\ n = 3
        /\ \A i \in 0..(n - 2) : keyAt(i) <= keyAt(i + 1)
        /\ \E key \in PageKeys :
              /\ \A i \in 0..(n - 1) : keyAt(i) # key
              /\ keyAt(0) < key
              /\ keyAt(n - 1) > key
              /\ search_key(Page, key) > 0
        /\ search_key(Page, keyAt(2)) \in {1, 2}
        /\ search_key(Page, MaxPageKey + 1) = -1

\* ---------------------------------------------------------------- C16
\* C16: delete_item(i) with i < key_count only sets the length of slot i to
\* 0: key_count, lower_ptr, upper_ptr, free_space(), every other slot entry
\* and all record bytes are unchanged; delete_item(i) with i >= key_count
\* returns false and changes nothing.
C16_DeleteFrame ==
    [][\A i \in 0..MaxSlots : (call'.op = "delete_item" /\ PageDelete(i)) =>
          IF i < Page.header_.key_count
          THEN LET old == Page.data_.bytes
                   new == Page'.data_.bytes
                   lengthField == (SlotOffset(i) + 4)..(SlotOffset(i) + 7)
               IN  /\ call'.ok
                   /\ Page'.header_ = Page.header_
                   /\ get_free_space(Page') = get_free_space(Page)
                   /\ SlotAt(new, SlotOffset(i))
                         = [offset |-> SlotAt(old, SlotOffset(i)).offset,
                            length |-> 0]
                   /\ \A o \in (DOMAIN old \cup DOMAIN new) \ lengthField :
                         o >= HeaderSize => ByteAt(new, o) = ByteAt(old, o)
          ELSE ~call'.ok /\ Page' = Page]_vars

C16_Witness ==
    LET n == Page.header_.key_count
        lengthAt(i) == SlotAt(Page.data_.bytes, SlotOffset(i)).length
    IN  /\ call.op = "delete_item"
        /\ call.ok
        /\ n = 3
        /\ lengthAt(1) = 0
        /\ lengthAt(0) > 0
        /\ lengthAt(2) > 0
        /\ get_key_at_slot(Page, 1) \in PageKeys

\* ---------------------------------------------------------------- C17
\* The slot entries of a page, and the sum f[0] + ... + f[n - 1].
SlotEntries(P) ==
    [i \in 0..(P.header_.key_count - 1) |->
        SlotAt(P.data_.bytes, SlotOffset(i))]

RECURSIVE SumTo(_, _)
SumTo(f, n) == IF n = 0 THEN 0 ELSE f[n - 1] + SumTo(f, n - 1)

\* Inserts and deletes leave the records tiling the data area: the slot
\* offsets are distinct, the lowest is upper_ptr, each record ends where the
\* next higher one (or the page) starts, and a slot's length is the size of
\* its record or 0.
RecordSize(P, i) ==
    LET slots == SlotEntries(P)
        ends == {slots[j].offset : j \in DOMAIN slots} \cup {PAGE_SIZE}
    IN  Min({e \in ends : e > slots[i].offset}) - slots[i].offset

Tiled(P) ==
    LET slots == SlotEntries(P)
        n == P.header_.key_count
    IN  /\ \A i, j \in DOMAIN slots : i # j => slots[i].offset # slots[j].offset
        /\ \A i \in DOMAIN slots :
              /\ slots[i].offset >= P.header_.upper_ptr
              /\ slots[i].offset < PAGE_SIZE
              /\ slots[i].length \in {0, RecordSize(P, i)}
        /\ P.header_.upper_ptr
              = Min({slots[j].offset : j \in DOMAIN slots} \cup {PAGE_SIZE})

\* C17: compact() sets key_count to the number of slots that had length > 0,
\* sets upper_ptr to PAGE_SIZE minus the sum of the surviving records'
\* lengths, never lowers free_space(), and, on a page reached by inserts and
\* deletes, raises free_space() by exactly (record size + sizeof(SlotEntry))
\* for each tombstoned slot.
C17_CompactReclaims ==
    [][(call'.op = "compact" /\ PageCompact) =>
          LET slots == SlotEntries(Page)
              n == Page.header_.key_count
              live == {i \in DOMAIN slots : slots[i].length > 0}
              reclaimed == [i \in DOMAIN slots |->
                               IF i \in live THEN 0
                               ELSE RecordSize(Page, i) + SlotEntrySize]
          IN  /\ Page'.header_.key_count = Cardinality(live)
              /\ Page'.header_.upper_ptr
                    = PAGE_SIZE
                        - SumTo([i \in DOMAIN slots |-> slots[i].length], n)
              /\ get_free_space(Page') >= get_free_space(Page)
              /\ Tiled(Page) =>
                    get_free_space(Page')
                        = get_free_space(Page) + SumTo(reclaimed, n)]_vars

\* A page of two records, the first tombstoned, has been compacted.
C17_Witness ==
    /\ call.op = "compact"
    /\ call.n = 4
    /\ Page.header_.key_count = 1
    /\ SlotAt(Page.data_.bytes, SlotOffset(1)).offset > 0
    /\ Page.header_.upper_ptr = PAGE_SIZE - LeafNodeSize
    /\ get_free_space(Page)
          = PAGE_SIZE - LeafNodeSize - HeaderSize - SlotEntrySize

\* ---------------------------------------------------------------- C18
\* C18: after compact() of a leaf page reached by inserts and deletes, the
\* j-th slot has a non-zero length and get_leaf_entry(j) returns the key and
\* value of the j-th record that was not tombstoned before the compaction.
C18_CompactKeepsRecords ==
    [][(PageCompact /\ Tiled(Page) /\ is_leaf(Page)) =>
          LET slots == SlotEntries(Page)
              live == {i \in DOMAIN slots : slots[i].length > 0}
          IN  \A i \in live :
                  LET j == Cardinality({k \in live : k < i})
                  IN  /\ SlotAt(Page'.data_.bytes, SlotOffset(j)).length > 0
                      /\ get_leaf_entry(Page', j)
                            = get_leaf_entry(Page, i)]_vars

\* ---------------------------------------------------------------- C19
\* C19: serialize_header into a buffer followed by deserialize_header from
\* that buffer yields the original header in all nine fields, each field
\* lying little-endian at its offset 0, 4, 8, 10, 12, 20, 24, 26, 28.
C19_RoundTrip ==
    LET h == Page.header_
        buf == Page.data_.bytes
        le16(v) == <<v % 256, v \div 256>>
        le32(v) == le16(v[1]) \o le16(v[2])
    IN  call.op = "serialize_header" =>
            /\ deserialize_header(buf) = h
            /\ ReadBytes(buf, 0, 4) = le32(h.checksum)
            /\ ReadBytes(buf, 4, 4) = le32(h.magic)
            /\ ReadBytes(buf, 8, 2) = le16(h.version)
            /\ ReadBytes(buf, 10, 2) = le16(h.page_type)
            /\ ReadBytes(buf, 12, 8)
                  = le32(<<h.lsn[1], h.lsn[2]>>) \o le32(<<h.lsn[3], h.lsn[4]>>)
            /\ ReadBytes(buf, 20, 4) = le32(h.page_id)
            /\ ReadBytes(buf, 24, 2) = le16(h.upper_ptr)
            /\ ReadBytes(buf, 26, 2) = le16(h.lower_ptr)
            /\ ReadBytes(buf, 28, 2) = le16(h.key_count)

\* A header with a full-width lsn was written over a buffer of 0xFF bytes
\* and read back.
C19_Witness ==
    /\ call.op = "serialize_header"
    /\ Page.header_.lsn = <<258, 258, 258, 65535>>
    /\ Page.header_.page_id = <<258, 258>>
    /\ ByteAt(Page.data_.bytes, HeaderSize) = 255
    /\ ReadBytes(Page.data_.bytes, 12, 8) = <<2, 1, 2, 1, 2, 1, 255, 255>>
    /\ deserialize_header(Page.data_.bytes).lsn = <<258, 258, 258, 65535>>

\* ---------------------------------------------------------------- C20
\* C20: on an image on which finalize_page_checksum was run, changing the
\* value of a single byte at an offset in 4..4095 makes verify_page_checksum
\* return false and makes load_from_disk / deserialize_from_buffer report
\* failure (the unchanged image verifies and loads).
C20_CorruptionDetected ==
    call.op \in {"verify_page_checksum", "load_from_disk"} =>
        IF call.off >= 4 THEN ~call.ok ELSE call.ok

\* The last byte of the image of a page holding records was changed and the
\* image was then loaded.
C20_Witness ==
    /\ call.op = "load_from_disk"
    /\ call.off = PAGE_SIZE - 1
    /\ ~call.ok
    /\ ByteAt(file[1], PAGE_SIZE - 1) = 255
    /\ Page.header_.key_count = 2

\* ---------------------------------------------------------------- C21
\* C21: the image that write_to_disk produces of a page reached by init,
\* insert, delete, compact, set_lsn, set_page_id and set_leaf passes the
\* checksum and magic checks, and loading it into another page reproduces
\* page_type, lsn, page_id, upper_ptr, lower_ptr, key_count and the same
\* records at the same slot indices.
C21_StoreLoadRoundTrip ==
    [][(call.op = "write_to_disk" /\ call'.op = "load_from_disk") =>
          /\ call'.ok
          /\ Page'.header_.magic = MAGIC
          /\ \A f \in {"page_type", "lsn", "page_id", "upper_ptr",
                       "lower_ptr", "key_count"} :
                Page'.header_[f] = Page.header_[f]
          /\ \A i \in 0..(Page.header_.key_count - 1) :
                /\ SlotAt(Page'.data_.bytes, SlotOffset(i))
                      = SlotAt(Page.data_.bytes, SlotOffset(i))
                /\ ReadEntry(Page', i) = ReadEntry(Page, i)
          /\ \A o \in DOMAIN Page'.data_.bytes \cup DOMAIN Page.data_.bytes :
                o >= HeaderSize =>
                    ByteAt(Page'.data_.bytes, o) = ByteAt(Page.data_.bytes, o)]_vars

\* A page that took a sorted insert in front of its record, a new lsn and
\* a tombstone was written and loaded into the other page.
C21_Witness ==
    /\ call.op = "load_from_disk"
    /\ call.ok
    /\ call.n = 2
    /\ Page.header_.lsn = <<1, 0, 258, 65535>>
    /\ Page.header_.key_count = 3
    /\ get_key_at_slot(Page, 0) = 1
    /\ SlotAt(Page.data_.bytes, SlotOffset(1)).length = 0

\* ---------------------------------------------------------------- C22
\* C22: a load that fails leaves the page untouched: the decoded header and
\* the page buffer are the same after the failed load as before it.
C22_FailedLoadLeavesPage ==
    [][(call'.op = "load_from_disk" /\ ~call'.ok) =>
          /\ Page'.header_ = Page.header_
          /\ Image(Page'.data_) = Image(Page.data_)]_vars

\* ----------------------------------------------------------------- C23
\* The live (key, value) pairs of a leaf page, in slot order.
Entries(page) ==
    [i \in 1..page.keyCount |->
        <<At(page.keys, i - 1), At(page.values, i - 1)>>]

\* C23: a leaf split of a full leaf (order - 1 keys) plus the new entry forms
\* one sorted sequence of order entries and divides it at mid = (order + 1)
\* / 2: the original page keeps exactly the first mid entries, the new page
\* receives exactly the remaining order - mid entries, every key keeps its
\* own value, and no entry is lost or duplicated.
C23_LeafSplitDivides ==
    [][(lastOp'.op = "insert" /\ lastOp'.log # <<>>) =>
          \E rec \in {lastOp'.log[1]} :
          \E mid \in {(order + 1) \div 2} :
          \E old \in {Entries(pageTable[rec.left])} :
          \E all \in {Entries(pageTable'[rec.left])
                        \o Entries(pageTable'[rec.right])} :
              /\ rec.kind = "leaf"
              /\ rec.right = nextPageId
              /\ Len(old) = order - 1
              /\ Len(all) = order
              /\ \A i \in 1..(order - 1) : all[i][1] < all[i + 1][1]
              /\ Range(all) =
                    Range(old) \cup {<<lastOp'.key, inserted'[lastOp'.key]>>}
              /\ pageTable'[rec.left].keyCount = mid
              /\ pageTable'[rec.right].keyCount = order - mid
              /\ pageTable'[rec.right].pageType = LEAF_PAGE
    ]_vars

\* A split of order 3 that leaves two entries and moves one, the new entry
\* being the second of the original page.
C23_Witness ==
    /\ order = 3
    /\ lastOp.op = "insert"
    /\ lastOp.log # <<>>
    /\ pageTable[lastOp.log[1].left].keyCount = 2
    /\ pageTable[lastOp.log[1].right].keyCount = 1
    /\ At(pageTable[lastOp.log[1].left].keys, 1) = lastOp.key
    /\ At(pageTable[lastOp.log[1].left].values, 1) = 2

\* ----------------------------------------------------------------- C24
\* The child ids children[0..keyCount] of a page, in slot order.
LiveChildren(page) == Slice(page.children, page.keyCount + 1)

\* The number of slots of seq that hold x.
Count(seq, x) == Cardinality({i \in 1..Len(seq) : seq[i] = x})

\* C24: an internal split promotes exactly the key at index mid = (order + 1)
\* / 2 of the merged key sequence: that median key appears in neither
\* resulting page, the original page keeps the mid keys before it with their
\* mid + 1 children, the new page receives the keys after it with the
\* remaining children, and the multiset of child page ids across both pages
\* equals the old children plus the newly inserted child.
C24_InternalSplitPromotes ==
    [][(lastOp'.op = "insert" /\ Len(lastOp'.log) >= 2) =>
          \A n \in 2..Len(lastOp'.log) :
          \E rec \in {lastOp'.log[n]}, below \in {lastOp'.log[n - 1]} :
          \E mid \in {(order + 1) \div 2} :
          \E old \in {pageTable[rec.left]} :
          \E L \in {pageTable'[rec.left]}, R \in {pageTable'[rec.right]} :
          \E merged \in {LiveKeys(L) \o <<rec.sep>> \o LiveKeys(R)} :
          \E kids \in {LiveChildren(L) \o LiveChildren(R)} :
              /\ rec.kind = "internal"
              /\ old.pageType = INTERNAL_PAGE
              /\ old.keyCount = order - 1
              /\ Len(merged) = order
              /\ \A i \in 1..(order - 1) : merged[i] < merged[i + 1]
              /\ Range(merged) = Range(LiveKeys(old)) \cup {below.sep}
              /\ merged = rec.merged
              /\ L.keyCount = mid
              /\ merged[mid + 1] = rec.sep
              /\ rec.sep \notin Range(LiveKeys(L)) \cup Range(LiveKeys(R))
              /\ R.keyCount = order - mid - 1
              /\ R.pageType = INTERNAL_PAGE
              /\ Len(kids) = order + 1
              /\ \A c \in 0..nextPageId' :
                    Count(kids, c) = Count(LiveChildren(old), c)
                                       + (IF c = below.right THEN 1 ELSE 0)
              /\ \E p \in 1..order :
                    /\ LiveChildren(old)[p] = below.left
                    /\ kids = VecInsert(LiveChildren(old), p, below.right)
    ]_vars

\* An internal split of order 4: the original page keeps two keys and three
\* children, one key goes up, the new page gets one key and two children.
C24_Witness ==
    /\ order = 4
    /\ lastOp.op = "insert"
    /\ Len(lastOp.log) >= 2
    /\ pageTable[lastOp.log[2].left].keyCount = 2
    /\ pageTable[lastOp.log[2].right].keyCount = 1
    /\ pageTable[lastOp.log[2].right].pageType = INTERNAL_PAGE
    /\ lastOp.log[2].sep \notin Range(LiveKeys(pageTable[lastOp.log[2].right]))

\* ----------------------------------------------------------------- C25
\* The resident leaf pages.
LeafIds == {p \in DOMAIN pageTable : pageTable[p].pageType = LEAF_PAGE}

\* The sibling links of the leaves form one doubly linked list.
ChainLinked ==
    /\ \A l \in LeafIds :
          \E n \in {pageTable[l].nextPageId} :
              n # INVALID_PAGE_ID =>
                  /\ n \in LeafIds
                  /\ pageTable[n].prevPageId = l
    /\ firstLeafPageId \in LeafIds
    /\ pageTable[firstLeafPageId].prevPageId = INVALID_PAGE_ID
    /\ Cardinality({l \in LeafIds :
                       pageTable[l].nextPageId = INVALID_PAGE_ID}) = 1
    /\ Range(ChainPages) = LeafIds

\* C25: after every completed insert the leaf chain is a consistent doubly
\* linked list: for every leaf L with nextPageId N != INVALID_PAGE_ID, page N
\* is a leaf with prevPageId = L; the first leaf has prevPageId =
\* INVALID_PAGE_ID and exactly one leaf has nextPageId = INVALID_PAGE_ID; a
\* leaf split places the new page directly between the original page and its
\* former successor.
C25_ChainDoublyLinked ==
    /\ ChainLinked
    /\ [][/\ ChainLinked'
          /\ (lastOp'.op = "insert" /\ lastOp'.log # <<>>) =>
                \E rec \in {lastOp'.log[1]} :
                \E succ \in {pageTable[rec.left].nextPageId} :
                    /\ pageTable'[rec.left].nextPageId = rec.right
                    /\ pageTable'[rec.right].prevPageId = rec.left
                    /\ pageTable'[rec.right].nextPageId = succ
                    /\ succ # INVALID_PAGE_ID =>
                          pageTable'[succ].prevPageId = rec.right
                    /\ pageTable'[rec.left].prevPageId =
                          pageTable[rec.left].prevPageId
                    /\ \A l \in LeafIds \ {rec.left, succ} :
                          /\ pageTable'[l].nextPageId = pageTable[l].nextPageId
                          /\ pageTable'[l].prevPageId = pageTable[l].prevPageId
      ]_vars

\* A split of a leaf in the middle of a chain: the new page has a
\* predecessor that is not the first leaf, and a successor.
C25_Witness ==
    /\ lastOp.op = "insert"
    /\ lastOp.log # <<>>
    /\ lastOp.log[1].left # firstLeafPageId
    /\ pageTable[lastOp.log[1].right].prevPageId = lastOp.log[1].left
    /\ pageTable[lastOp.log[1].right].nextPageId # INVALID_PAGE_ID
    /\ Len(ChainPages) >= 4

\* ----------------------------------------------------------------- C26
\* C26: after every completed insert, for every internal page P reachable
\* from the root and every child id c in P.children[0..keyCount], page c has
\* parentPageId = P, and the root page has parentPageId = INVALID_PAGE_ID; in
\* particular every child moved to the new page by an internal split is
\* re-parented to the new page id.
C26_ParentPointers ==
    /\ rootPageId \in DOMAIN pageTable
    /\ pageTable[rootPageId].parentPageId = INVALID_PAGE_ID
    /\ \A p \in TreePages :
          /\ p \in DOMAIN pageTable
          /\ \A c \in ChildIds(p) :
                /\ c \in DOMAIN pageTable
                /\ pageTable[c].parentPageId = p
    /\ \A n \in 1..Len(lastOp.log) :
          lastOp.log[n].kind = "internal" =>
              /\ lastOp.log[n].right \in TreePages
              /\ \A c \in ChildIds(lastOp.log[n].right) :
                    pageTable[c].parentPageId = lastOp.log[n].right

\* An insert that split a leaf and two internal pages in a tree whose root
\* was replaced twice; each new internal page took over a child that existed
\* before the insert.
C26_Witness ==
    /\ Len(lastOp.log) >= 3
    /\ rootChanges >= 2
    /\ \E c \in ChildIds(lastOp.log[2].right) :
          /\ c # lastOp.log[1].right
          /\ pageTable[c].parentPageId = lastOp.log[2].right
    /\ \E c \in ChildIds(lastOp.log[3].right) :
          /\ c # lastOp.log[2].right
          /\ pageTable[c].parentPageId = lastOp.log[3].right

\* ----------------------------------------------------------------- C27
\* C27: root_page_id changes only during an insert in which the current root
\* page itself splits; it is then set to a newly allocated internal page
\* holding exactly one key and exactly two children (the old root and the
\* page created by the split), and the height of the tree grows by exactly
\* one; every other insert leaves root_page_id unchanged.
C27_RootChangesOnRootSplit ==
    [][lastOp'.op = "insert" =>
          \E log \in {lastOp'.log} :
              IF \E n \in 1..Len(log) : log[n].left = rootPageId
              THEN \E rec \in {log[Len(log)]} :
                   \E root \in {pageTable'[rootPageId']} :
                      /\ rec.left = rootPageId
                      /\ rootPageId' # rootPageId
                      /\ rootPageId' \notin DOMAIN pageTable
                      /\ rootPageId' >= nextPageId
                      /\ rootPageId' < nextPageId'
                      /\ rootPageId' # rec.right
                      /\ root.pageType = INTERNAL_PAGE
                      /\ root.keyCount = 1
                      /\ At(root.keys, 0) = rec.sep
                      /\ At(root.children, 0) = rootPageId
                      /\ At(root.children, 1) = rec.right
                      /\ rec.right >= nextPageId
                      /\ Height' = Height + 1
              ELSE /\ rootPageId' = rootPageId
                   /\ Height' = Height
    ]_vars

\* The third root: an internal root split, and the new root holds the old
\* root and the new internal page.
C27_Witness ==
    /\ lastOp.op = "insert"
    /\ rootChanges >= 2
    /\ Len(lastOp.log) >= 2
    /\ lastOp.log[Len(lastOp.log)].kind = "internal"
    /\ At(pageTable[rootPageId].children, 0) = lastOp.log[Len(lastOp.log)].left
    /\ At(pageTable[rootPageId].children, 1) = lastOp.log[Len(lastOp.log)].right
    /\ Height >= 3

\* ----------------------------------------------------------------- C28
\* C28: with a split taken as its individual page writes, at every step
\* between two writes every key inserted by earlier operations is still
\* found by a descent from root_page_id and by a forward walk of the leaf
\* chain, and every parent pointer and sibling link that a reader can reach
\* designates the correct page.
C28_ReaderNeverMisses ==
    call.op = "split" =>
        /\ \A k \in DOMAIN inserted :
              \E r \in {SearchOp(pageTable, rootPageId, k)} :
                  /\ r.ok
                  /\ r.found
                  /\ r.value = inserted[k]
        /\ \E pages \in {ChainPages} :
              /\ DOMAIN inserted \subseteq Range(KeysOf(pages))
              /\ \A i \in 1..(Len(pages) - 1) :
                    pageTable[pages[i + 1]].prevPageId = pages[i]
        /\ \A p \in TreePages :
              \A c \in ChildIds(p) :
                  /\ c \in DOMAIN pageTable
                  /\ pageTable[c].parentPageId = p

\* ----------------------------------------------------------------- C29
\* C29: a successful insert_index_item at insertion index i leaves the slot
\* entries 0..i-1 unchanged at their indices, moves every former slot j >= i
\* to index j + 1 with its offset and length unchanged, writes the new slot
\* {offset = new upper_ptr, length = record size} at index i, and changes no
\* byte of any previously stored record.
C29_SortedInsertFrame ==
    [][\A key \in PageKeys, item_size \in ItemSizes :
          (/\ call'.op = "insert_index_item"
           /\ call'.ok
           /\ PageInsertIndex(key, EntryValue(key), item_size)) =>
              LET i == find_insertion_point(Page, key)
                  n == Page.header_.key_count
                  old == Page.data_.bytes
                  new == Page'.data_.bytes
              IN  /\ Page'.header_.key_count = n + 1
                  /\ \A j \in 0..(i - 1) :
                        SlotAt(new, SlotOffset(j)) = SlotAt(old, SlotOffset(j))
                  /\ \A j \in i..(n - 1) :
                        SlotAt(new, SlotOffset(j + 1))
                            = SlotAt(old, SlotOffset(j))
                  /\ SlotAt(new, SlotOffset(i))
                        = [offset |-> Page'.header_.upper_ptr,
                           length |-> item_size]
                  /\ \A o \in DOMAIN old \cup DOMAIN new :
                        o >= Page.header_.upper_ptr =>
                            ByteAt(new, o) = ByteAt(old, o)]_vars

\* ----------------------------------------------------------------- C30
\* The pages reached from the set S by 0, 1, 2, ... child links.
RECURSIVE LevelsFrom(_, _)
LevelsFrom(S, fuel) ==
    IF S = {} \/ fuel = 0 THEN <<>>
    ELSE <<S>> \o LevelsFrom(UNION {ChildIds(p) : p \in S}, fuel - 1)

Levels == LevelsFrom({rootPageId}, Cardinality(DOMAIN pageTable) + 1)

\* C30: after every completed insert the tree is balanced: every leaf page
\* is reached from root_page_id by the same number of child links, every
\* page reached at that depth is a leaf, and every page above it is an
\* internal page.
C30_Balanced ==
    \E lv \in {Levels} :
        /\ Len(lv) >= 1
        /\ Len(lv) = Height
        /\ \A d \in 1..Len(lv) :
              \A p \in lv[d] :
                  /\ p \in DOMAIN pageTable
                  /\ pageTable[p].pageType =
                        IF d = Len(lv) THEN LEAF_PAGE ELSE INTERNAL_PAGE
        /\ \A d \in 1..(Len(lv) - 1) : lv[d] \cap lv[Len(lv)] = {}
        /\ lv[Len(lv)] = LeafIds
        /\ lv[Len(lv)] = Range(ChainPages)

\* A tree of order 3 with three levels and at least four leaves, the last
\* insert having split a leaf and an internal page.
C30_Witness ==
    /\ order = 3
    /\ Len(Levels) >= 3
    /\ Cardinality(Levels[Len(Levels)]) >= 4
    /\ Cardinality(Levels[2]) = 2
    /\ Len(lastOp.log) >= 2

\* ----------------------------------------------------------------- C31
\* C31: for every order >= 3 and every insert sequence, every internal page
\* reachable from the root holds at least one key; in particular both pages
\* produced by an internal split hold at least one key.
C31_InternalPagesHoldKeys ==
    order >= 3 =>
        /\ \A p \in TreePages :
              pageTable[p].pageType = INTERNAL_PAGE =>
                  pageTable[p].keyCount >= 1
        /\ \A n \in 1..Len(lastOp.log) :
              lastOp.log[n].kind = "internal" =>
                  /\ lastOp.log[n].leftKeys # <<>>
                  /\ lastOp.log[n].rightKeys # <<>>

\* ----------------------------------------------------------------- C32
\* C32: for every order the constructor accepts and every insert sequence,
\* no page's keyCount ever exceeds MAX_KEYS_PER_PAGE and no key, value or
\* child is written at an index beyond the page's fixed arrays.
C32_ArraysNeverOverrun ==
    /\ InBounds
    /\ \A p \in DOMAIN pageTable :
          pageTable[p].keyCount <= MAX_KEYS_PER_PAGE

\* ----------------------------------------------------------------- C33
\* C33: for every item_size, insert_item returns false and leaves the page
\* unchanged whenever item_size + sizeof(SlotEntry), computed without
\* wrap-around, exceeds free_space(); the 16-bit computation of the required
\* space never wraps so as to admit a record that does not fit, and
\* upper_ptr never wraps below lower_ptr.
C33_NoWrapAdmission ==
    [][\A key \in PageKeys, item_size \in ItemSizes :
          (/\ call'.op = "insert_item"
           /\ PageInsertItem(key, EntryValue(key), item_size)) =>
              /\ item_size + SlotEntrySize > get_free_space(Page) =>
                    /\ ~call'.ok
                    /\ Page' = Page
              /\ call'.ok =>
                    RequiredSpace(item_size) = item_size + SlotEntrySize
              /\ Page'.header_.upper_ptr >= Page'.header_.lower_ptr
              /\ Page'.header_.upper_ptr <= Page.header_.upper_ptr]_vars

\* ----------------------------------------------------------------- C34
\* C34 as stated: after delete_item(i) succeeds and before compact(),
\* get_leaf_entry(i) (or get_internal_entry(i)) still returns true with the
\* deleted record, and search_key and linear_search_key still return index i
\* for that record's key.
C34_Original ==
    [][\A i \in 0..MaxSlots :
          (call'.op = "delete_item" /\ call'.ok /\ PageDelete(i)) =>
              /\ MidKey(Page', i).ok
              /\ MidKey(Page', i) = MidKey(Page, i)
              /\ search_key(Page', MidKey(Page, i).key) = i
              /\ linear_search_key(Page', MidKey(Page, i).key) = i]_vars

\* C34: a logically deleted slot stays visible until compaction: after
\* delete_item(i) succeeds, get_leaf_entry(i) (or get_internal_entry(i))
\* still returns true with the deleted record, and search_key and
\* linear_search_key return for every key the index they returned before
\* the delete, which is i for the deleted record's key when the keys of the
\* page are distinct and in ascending slot order; the same holds of every
\* slot of length 0 the page holds then.
C34_DeletedSlotVisible ==
    [][\A i \in 0..MaxSlots :
          (call'.op = "delete_item" /\ call'.ok /\ PageDelete(i)) =>
              LET n == Page.header_.key_count
                  keyAt(j) == get_key_at_slot(Page, j)
                  ascending == \A j \in 0..(n - 2) : keyAt(j) < keyAt(j + 1)
                  dead == {j \in 0..(n - 1) :
                             SlotAt(Page'.data_.bytes, SlotOffset(j)).length
                                 = 0}
              IN  /\ i \in dead
                  /\ \A j \in dead :
                        /\ MidKey(Page', j).ok
                        /\ MidKey(Page', j) = MidKey(Page, j)
                        /\ MidKey(Page', j).key = keyAt(j)
                        /\ ascending =>
                              /\ search_key(Page', keyAt(j)) = j
                              /\ linear_search_key(Page', keyAt(j)) = j
                  /\ \A key \in 0..(MaxPageKey + 1) :
                        /\ search_key(Page', key) = search_key(Page, key)
                        /\ linear_search_key(Page', key)
                              = linear_search_key(Page, key)]_vars

\* The middle one of three records with ascending keys has been deleted from
\* a leaf page and is still read and found at index 1.
C34_Witness ==
    /\ call.op = "delete_item"
    /\ call.ok
    /\ is_leaf(Page)
    /\ Page.header_.key_count = 3
    /\ get_key_at_slot(Page, 0) < get_key_at_slot(Page, 1)
    /\ get_key_at_slot(Page, 1) < get_key_at_slot(Page, 2)
    /\ SlotAt(Page.data_.bytes, SlotOffset(1)).length = 0
    /\ SlotAt(Page.data_.bytes, SlotOffset(0)).length > 0
    /\ get_leaf_entry(Page, 1).ok
    /\ search_key(Page, get_key_at_slot(Page, 1)) = 1
    /\ linear_search_key(Page, get_key_at_slot(Page, 1)) = 1

====
